---- MODULE Spec2Model ----
(***************************************************************************)
(* Order execution and risk-controlled position lifecycle of the           *)
(* polymarket bot: PositionLimits (src/risk/position_limits.py) and        *)
(* execute_market_buy (src/execution.py) with PaperPortfolio               *)
(* (src/portfolio.py), and the position ledger PositionMonitor             *)
(* (src/monitoring.py) with its lock.                                      *)
(*                                                                         *)
(* Currency amounts are Python floats.  They are modelled as integer       *)
(* multiples of one currency quantum, and every float addition or          *)
(* subtraction the code performs is rounded by Fl to MantBits significant  *)
(* bits (round to nearest, ties to even), as IEEE-754 does with 53 bits.   *)
(***************************************************************************)
EXTENDS Integers, Naturals, Sequences, FiniteSets, TLC

(***************************************************************************)
(* Configuration (src/config.py).  The ceilings depend on the deployment   *)
(* (dev: 20 / 25.0 / 100, prod: 5 / 100.0 / 20), so the model scales them  *)
(* down; every property below is stated in terms of the names.             *)
(***************************************************************************)
MAX_CONCURRENT_POSITIONS == 2
MAX_POSITION_USD == 6
MAX_DAILY_TRADES == 3

\* Bounds of the model.
MantBits == 3          \* significant bits of the modelled float format
MaxTotal == 12         \* add_position is explored while exposure stays <= MaxTotal
MaxExtraTrades == 1    \* trades explored beyond MAX_DAILY_TRADES
MaxDrift == 2          \* rounding error of the aggregate explored, in quanta
MaxClosed == 1         \* closes explored per run of the position ledger
MaxHistory == 11       \* closes explored when one market is traded repeatedly
MaxTrades == 2         \* trades recorded in TradeMetrics
MaxPnlEvents == 5      \* record_pnl and reset_daily_stats calls explored
loss_limit_usd == 8    \* TradeMetrics.loss_limit_usd (default 50.0), scaled down
                       \* with the amounts
RecursionLimit == 3    \* nested get_balance calls that fit in the interpreter's
                       \* stack (sys.getrecursionlimit() is 1000 frames)
MaxSlots == 2          \* 15-minute slots the polling loop lives through

NumMarkets == MAX_CONCURRENT_POSITIONS + 1
Markets == 1 .. NumMarkets

RECURSIVE Pow2(_)
Pow2(n) == IF n = 0 THEN 1 ELSE 2 * Pow2(n - 1)

\* Spacing of the floats around x >= 0: 1 below 2^MantBits, doubling with
\* every further binade.
RECURSIVE Ulp(_, _)
Ulp(x, q) == IF x < q * Pow2(MantBits) THEN q ELSE Ulp(x, 2 * q)

\* Round a non-negative exact result to the nearest float, ties to even.
FlAbs(x) ==
    LET q   == Ulp(x, 1)
        lo  == (x \div q) * q
        rem == x - lo
    IN  IF 2 * rem < q THEN lo
        ELSE IF 2 * rem > q THEN lo + q
        ELSE IF (lo \div q) % 2 = 0 THEN lo ELSE lo + q

\* The float nearest to the exact result x of one arithmetic operation.
Fl(x) == IF x < 0 THEN 0 - FlAbs(0 - x) ELSE FlAbs(x)

\* Amounts a caller may pass: all are floats of the modelled format.
Amounts == {Fl(a) : a \in {1, 3, MAX_POSITION_USD, MAX_POSITION_USD + 1}}

VARIABLES
    active_positions,    \* PositionLimits.active_positions: market -> amount
    total_exposure_usd,  \* PositionLimits.total_exposure_usd
    daily_trade_count,   \* PositionLimits.daily_trade_count
    last,                \* the last call: operation, arguments, result, errors logged
    DRY_RUN,             \* config.DRY_RUN, fixed at startup
    WALLET_MIN_BALANCE_USD,  \* config.WALLET_MIN_BALANCE_USD, fixed at startup
    paper_positions,     \* execution._paper_portfolio.positions
    exec_last,           \* the last execute_market_buy call: arguments, outcome,
                         \* client calls made, messages logged
    positions,           \* PositionMonitor.positions: market_id -> position
    closed_positions,    \* PositionMonitor.closed_positions
    lock,                \* PositionMonitor.lock: the thread inside, or "free"
    frame,               \* per thread: the PositionMonitor call it is in, its
                         \* position in the code, its locals and its result
    trades,              \* TradeMetrics.trades
    daily_loss_usd,      \* TradeMetrics.daily_loss_usd
    loss_streak,         \* TradeMetrics.loss_streak
    metrics_last,        \* the last TradeMetrics call: arguments, result, messages
    pnl_events,          \* history: the record_pnl and reset_daily_stats calls so far
    limits_pc,           \* where the polling loop is inside PositionLimits.add_position
                         \* or close_position when these run statement by statement
    exec_pc,             \* where a live execute_market_buy call is: the client
                         \* call or backoff delay it is in
    metrics_pc,          \* per thread: where it is inside TradeMetrics.record_pnl
    approvals,           \* per caller: the trade can_trade approved for it and
                         \* that it has not yet recorded with add_position
    bot,                 \* main.py: current_slot_unix, last_traded_market_id and
                         \* the position of the polling loop within its tick
    balance_stack        \* the active calls of the client's attached get_balance

limits_vars == <<active_positions, total_exposure_usd, daily_trade_count>>
config_vars == <<DRY_RUN, WALLET_MIN_BALANCE_USD>>
exec_vars == <<paper_positions, exec_last>>
monitor_vars == <<positions, closed_positions, lock, frame>>
vars == <<active_positions, total_exposure_usd, daily_trade_count, last,
          DRY_RUN, WALLET_MIN_BALANCE_USD, paper_positions, exec_last,
          positions, closed_positions, lock, frame,
          trades, daily_loss_usd, loss_streak, metrics_last, pnl_events,
          limits_pc, exec_pc, metrics_pc, approvals, bot, balance_stack>>
runtime_vars == <<exec_pc, metrics_pc, approvals, bot, balance_stack>>
metrics_vars == <<trades, daily_loss_usd, loss_streak, metrics_last, pnl_events>>

\* Optional values: Python's None and a present value.
None == [none |-> TRUE]
Some(v) == [none |-> FALSE, val |-> v]

\* reported: the log_error messages of the call; info: its log_info messages
Call(op, market_id, amount_usd, ret, reported, info) ==
    [op |-> op, market |-> market_id, amount |-> amount_usd, pnl |-> None,
     ret |-> ret, reported |-> reported, info |-> info]

\* Exact (unrounded) sum of the amounts of a position map.
RECURSIVE ExactSum(_, _)
ExactSum(f, S) ==
    IF S = {} THEN 0
    ELSE LET m == CHOOSE x \in S : TRUE IN f[m] + ExactSum(f, S \ {m})

\* Exploration bound: the rounding error accumulated in the aggregate.
WithinDrift(amounts, total) ==
    LET d == total - ExactSum(amounts, DOMAIN amounts)
    IN  d <= MaxDrift /\ 0 - d <= MaxDrift

\* The polling loop is outside add_position and close_position.
LimitsIdle == [pc |-> "idle", market |-> 0, amount |-> 0, pnl |-> None]

\* PositionLimits.__init__
PositionLimitsInit ==
    /\ active_positions = <<>>
    /\ total_exposure_usd = 0
    /\ daily_trade_count = 0
    /\ limits_pc = LimitsIdle

\* max_exposure = MAX_CONCURRENT_POSITIONS * MAX_POSITION_USD * 0.8, compared
\* exactly: new_exposure > max_exposure
ExceedsMaxExposure(new_exposure) ==
    10 * new_exposure > 8 * MAX_CONCURRENT_POSITIONS * MAX_POSITION_USD

\* Mutant: the total-exposure check is missing.
CanTradeCheck_NoExposure(market_id, amount_usd) ==
    IF daily_trade_count >= MAX_DAILY_TRADES THEN "daily_trade_limit"
    ELSE IF amount_usd > MAX_POSITION_USD THEN "position_size"
    ELSE IF /\ Cardinality(DOMAIN active_positions) >= MAX_CONCURRENT_POSITIONS
            /\ market_id \notin DOMAIN active_positions
         THEN "concurrent_positions"
    ELSE "ok"

\* Mutant: the size check rejects the ceiling itself (>= for >).
CanTradeCheck_SizeInclusive(market_id, amount_usd) ==
    IF daily_trade_count >= MAX_DAILY_TRADES THEN "daily_trade_limit"
    ELSE IF amount_usd >= MAX_POSITION_USD THEN "position_size"
    ELSE IF /\ Cardinality(DOMAIN active_positions) >= MAX_CONCURRENT_POSITIONS
            /\ market_id \notin DOMAIN active_positions
         THEN "concurrent_positions"
    ELSE IF ExceedsMaxExposure(Fl(total_exposure_usd + amount_usd))
         THEN "total_exposure"
    ELSE "ok"

\* Mutant: the count check also applies to markets already open.
CanTradeCheck_CountAll(market_id, amount_usd) ==
    IF daily_trade_count >= MAX_DAILY_TRADES THEN "daily_trade_limit"
    ELSE IF amount_usd > MAX_POSITION_USD THEN "position_size"
    ELSE IF Cardinality(DOMAIN active_positions) >= MAX_CONCURRENT_POSITIONS
         THEN "concurrent_positions"
    ELSE IF ExceedsMaxExposure(Fl(total_exposure_usd + amount_usd))
         THEN "total_exposure"
    ELSE "ok"

\* Mutant: the size check is evaluated before the daily-count check.
CanTradeCheck_SizeFirst(market_id, amount_usd) ==
    IF amount_usd > MAX_POSITION_USD THEN "position_size"
    ELSE IF daily_trade_count >= MAX_DAILY_TRADES THEN "daily_trade_limit"
    ELSE IF /\ Cardinality(DOMAIN active_positions) >= MAX_CONCURRENT_POSITIONS
            /\ market_id \notin DOMAIN active_positions
         THEN "concurrent_positions"
    ELSE IF ExceedsMaxExposure(Fl(total_exposure_usd + amount_usd))
         THEN "total_exposure"
    ELSE "ok"

\* The first failing check of can_trade, in the order of the code, or "ok".
CanTradeCheck(market_id, amount_usd) ==
    IF daily_trade_count >= MAX_DAILY_TRADES THEN "daily_trade_limit"
    ELSE IF amount_usd > MAX_POSITION_USD THEN "position_size"
    ELSE IF /\ Cardinality(DOMAIN active_positions) >= MAX_CONCURRENT_POSITIONS
            /\ market_id \notin DOMAIN active_positions
         THEN "concurrent_positions"
    ELSE IF ExceedsMaxExposure(Fl(total_exposure_usd + amount_usd))
         THEN "total_exposure"
    ELSE "ok"

\* Mutant: an approving can_trade already counts the trade.
can_trade_Counting(market_id, amount_usd) ==
    LET check == CanTradeCheck(market_id, amount_usd)
    IN  /\ last' = Call("can_trade", market_id, amount_usd,
                        IF check = "ok" THEN "True" ELSE "False",
                        IF check = "ok" THEN <<>> ELSE <<check>>, <<>>)
        /\ daily_trade_count' =
               IF check = "ok" THEN daily_trade_count + 1 ELSE daily_trade_count
        /\ UNCHANGED <<active_positions, total_exposure_usd, config_vars, runtime_vars, metrics_vars, limits_pc, exec_vars, monitor_vars>>

\* Mutant: can_trade refuses once the daily loss is above its limit.
can_trade_HaltsOnLoss(market_id, amount_usd) ==
    LET check == IF daily_loss_usd > loss_limit_usd THEN "daily_loss"
                 ELSE CanTradeCheck(market_id, amount_usd)
    IN  /\ last' = Call("can_trade", market_id, amount_usd,
                        IF check = "ok" THEN "True" ELSE "False",
                        IF check = "ok" THEN <<>> ELSE <<check>>, <<>>)
        /\ UNCHANGED <<limits_vars, config_vars, runtime_vars, metrics_vars, limits_pc, exec_vars, monitor_vars>>

can_trade(market_id, amount_usd) ==
    LET check == CanTradeCheck(market_id, amount_usd)
    IN  /\ last' = Call("can_trade", market_id, amount_usd,
                        IF check = "ok" THEN "True" ELSE "False",
                        IF check = "ok" THEN <<>> ELSE <<check>>, <<>>)
        /\ UNCHANGED <<limits_vars, config_vars, runtime_vars, metrics_vars, limits_pc, exec_vars, monitor_vars>>

\* Mutant: the amount overwrites the market's notional instead of adding to it.
AddedPositions_Overwrite(market_id, amount_usd) ==
    [m \in DOMAIN active_positions \cup {market_id} |->
        IF m = market_id THEN amount_usd ELSE active_positions[m]]

\* active_positions after add_position
AddedPositions(market_id, amount_usd) ==
    LET old == IF market_id \in DOMAIN active_positions
               THEN active_positions[market_id] ELSE 0
    IN  [m \in DOMAIN active_positions \cup {market_id} |->
            IF m = market_id THEN Fl(old + amount_usd) ELSE active_positions[m]]

\* The first three conjuncts only bound the exploration; the code has no guard.
add_position(market_id, amount_usd) ==
    /\ Fl(total_exposure_usd + amount_usd) <= MaxTotal
    /\ daily_trade_count < MAX_DAILY_TRADES + MaxExtraTrades
    /\ WithinDrift(AddedPositions(market_id, amount_usd),
                   Fl(total_exposure_usd + amount_usd))
    /\ active_positions' = AddedPositions(market_id, amount_usd)
    /\ total_exposure_usd' = Fl(total_exposure_usd + amount_usd)
    /\ daily_trade_count' = daily_trade_count + 1
    /\ last' = Call("add_position", market_id, amount_usd, "None", <<>>,
                     <<"Position added">>)
    /\ UNCHANGED <<config_vars, runtime_vars, metrics_vars, limits_pc, exec_vars, monitor_vars>>

\* active_positions after pop(market_id)
PoppedPositions(market_id) ==
    [m \in DOMAIN active_positions \ {market_id} |-> active_positions[m]]

\* Mutant: the entry is removed but the aggregate is not reduced.
close_position_KeepsExposure(market_id, pnl_usd) ==
    /\ active_positions' = PoppedPositions(market_id)
    /\ UNCHANGED <<total_exposure_usd, daily_trade_count>>
    /\ last' = [Call("close_position", market_id, 0, "None", <<>>,
                        IF market_id \in DOMAIN active_positions
                        THEN <<"Position closed">> ELSE <<>>)
                   EXCEPT !.pnl = pnl_usd]
    /\ UNCHANGED <<config_vars, runtime_vars, metrics_vars, limits_pc, exec_vars, monitor_vars>>

\* pnl_usd is only logged.  WithinDrift only bounds the exploration.
close_position(market_id, pnl_usd) ==
    /\ IF market_id \in DOMAIN active_positions
       THEN /\ WithinDrift(PoppedPositions(market_id),
                           Fl(total_exposure_usd - active_positions[market_id]))
            /\ active_positions' = PoppedPositions(market_id)
            /\ total_exposure_usd' =
                   Fl(total_exposure_usd - active_positions[market_id])
       ELSE UNCHANGED <<active_positions, total_exposure_usd>>
    /\ UNCHANGED daily_trade_count
    /\ last' = [Call("close_position", market_id, 0, "None", <<>>,
                        IF market_id \in DOMAIN active_positions
                        THEN <<"Position closed">> ELSE <<>>)
                   EXCEPT !.pnl = pnl_usd]
    /\ UNCHANGED <<config_vars, runtime_vars, metrics_vars, limits_pc, exec_vars, monitor_vars>>

reset_daily_counters ==
    /\ daily_trade_count' = 0
    /\ UNCHANGED <<active_positions, total_exposure_usd>>
    /\ last' = Call("reset_daily_counters", 0, 0, "None", <<>>,
                     <<"Daily trade counters reset">>)
    /\ UNCHANGED <<config_vars, runtime_vars, metrics_vars, limits_pc, exec_vars, monitor_vars>>

\* The snapshot get_status returns.
StatusOf ==
    [active_positions |-> Cardinality(DOMAIN active_positions),
     total_exposure_usd |-> total_exposure_usd,
     daily_trades |-> daily_trade_count,
     markets |-> DOMAIN active_positions]

get_status ==
    /\ last' = Call("get_status", 0, 0, "dict", <<>>, <<>>)
    /\ UNCHANGED <<limits_vars, config_vars, runtime_vars, metrics_vars, limits_pc, exec_vars, monitor_vars>>

(***************************************************************************)
(* PositionLimits.add_position and close_position statement by statement   *)
(* (position_limits.py lines 60-81).  The class has no lock, so a second   *)
(* thread can run get_status or can_trade between any two statements of    *)
(* the polling loop.                                                       *)
(***************************************************************************)
ConcurrentAmounts == {2, 4}

\* lines 62-63: the market gets an entry of 0.0 if it has none.  The first
\* two conjuncts only bound the exploration.
add_position_init(market_id, amount_usd) ==
    /\ limits_pc.pc = "idle"
    /\ Fl(total_exposure_usd + amount_usd) <= MaxTotal
    /\ daily_trade_count < MAX_DAILY_TRADES + MaxExtraTrades
    /\ active_positions' =
           IF market_id \in DOMAIN active_positions THEN active_positions
           ELSE [m \in DOMAIN active_positions \cup {market_id} |->
                    IF m = market_id THEN 0 ELSE active_positions[m]]
    /\ limits_pc' = [LimitsIdle EXCEPT !.pc = "add_amount",
                         !.market = market_id, !.amount = amount_usd]
    /\ UNCHANGED <<total_exposure_usd, daily_trade_count, last>>
    /\ UNCHANGED <<config_vars, runtime_vars, metrics_vars, exec_vars, monitor_vars>>

\* line 64: self.active_positions[market_id] += amount_usd
add_position_amount ==
    /\ limits_pc.pc = "add_amount"
    /\ active_positions' =
           [active_positions EXCEPT ![limits_pc.market] = Fl(@ + limits_pc.amount)]
    /\ limits_pc' = [limits_pc EXCEPT !.pc = "add_total"]
    /\ UNCHANGED <<total_exposure_usd, daily_trade_count, last>>
    /\ UNCHANGED <<config_vars, runtime_vars, metrics_vars, exec_vars, monitor_vars>>

\* line 65: self.total_exposure_usd += amount_usd
add_position_total ==
    /\ limits_pc.pc = "add_total"
    /\ total_exposure_usd' = Fl(total_exposure_usd + limits_pc.amount)
    /\ limits_pc' = [limits_pc EXCEPT !.pc = "add_count"]
    /\ UNCHANGED <<active_positions, daily_trade_count, last>>
    /\ UNCHANGED <<config_vars, runtime_vars, metrics_vars, exec_vars, monitor_vars>>

\* lines 66-70: self.daily_trade_count += 1, and the call returns
add_position_count ==
    /\ limits_pc.pc = "add_count"
    /\ daily_trade_count' = daily_trade_count + 1
    /\ last' = Call("add_position", limits_pc.market, limits_pc.amount, "None",
                     <<>>, <<"Position added">>)
    /\ limits_pc' = LimitsIdle
    /\ UNCHANGED <<active_positions, total_exposure_usd>>
    /\ UNCHANGED <<config_vars, runtime_vars, metrics_vars, exec_vars, monitor_vars>>

\* lines 74-75: amount = self.active_positions.pop(market_id), or the call
\* returns at once for a market that has no entry
close_position_pop(market_id, pnl_usd) ==
    /\ limits_pc.pc = "idle"
    /\ IF market_id \in DOMAIN active_positions
       THEN /\ active_positions' = PoppedPositions(market_id)
            /\ limits_pc' = [LimitsIdle EXCEPT !.pc = "close_total",
                                 !.market = market_id,
                                 !.amount = active_positions[market_id],
                                 !.pnl = pnl_usd]
            /\ UNCHANGED last
       ELSE /\ last' = [Call("close_position", market_id, 0, "None", <<>>, <<>>)
                           EXCEPT !.pnl = pnl_usd]
            /\ UNCHANGED <<active_positions, limits_pc>>
    /\ UNCHANGED <<total_exposure_usd, daily_trade_count>>
    /\ UNCHANGED <<config_vars, runtime_vars, metrics_vars, exec_vars, monitor_vars>>

\* lines 76-81: self.total_exposure_usd -= amount, and the call returns
close_position_total ==
    /\ limits_pc.pc = "close_total"
    /\ total_exposure_usd' = Fl(total_exposure_usd - limits_pc.amount)
    /\ last' = [Call("close_position", limits_pc.market, 0, "None", <<>>,
                        <<"Position closed">>)
                   EXCEPT !.pnl = limits_pc.pnl]
    /\ limits_pc' = LimitsIdle
    /\ UNCHANGED <<active_positions, daily_trade_count>>
    /\ UNCHANGED <<config_vars, runtime_vars, metrics_vars, exec_vars, monitor_vars>>

(***************************************************************************)
(* execute_market_buy (src/execution.py) and PaperPortfolio                *)
(* (src/portfolio.py).  Prices are in price quanta; the share count        *)
(* amount / price is kept as the pair <<amount, price>>.                   *)
(***************************************************************************)
MaxPaper == 2          \* paper positions explored
MAX_ATTEMPTS == 3      \* stop_after_attempt(3)

Clients == {"None", "client"}
Sides == {"yes", "no"}
ExecAmounts == {0, 20}
\* market: None, a dict without "question", a dict with "question"
MarketContexts == {None, Some(<<>>), Some([question |-> "Q1"])}
\* price: None (the default), zero, a positive price
Prices == {None, Some(0), Some(80)}
\* get_balance() * 2000 as returned by the client, or an exception
Balances == {[kind |-> "raises"], [kind |-> "usd", usd |-> 0], [kind |-> "usd", usd |-> 1]}
\* what one submission attempt meets in the client: create_market_buy raises,
\* post_order raises a transport error, post_order raises because the exchange
\* rejected the order, post_order returns
AttemptKinds == {"create_raises", "post_raises", "post_rejects", "returns"}
\* the attempts the client is prepared to answer: one more than the retry
\* wrapper may make
AttemptSlots == 1 .. MAX_ATTEMPTS + 1
\* The client's answers attempt by attempt.  Attempts the retry wrapper never
\* makes (after the first one that returns, or beyond MAX_ATTEMPTS) are not
\* varied.
AttemptScripts ==
    {kinds \in [AttemptSlots -> AttemptKinds] :
        \A i \in AttemptSlots :
            (i > MAX_ATTEMPTS \/ \E j \in 1 .. i - 1 : kinds[j] = "returns")
                => kinds[i] = "returns"}
\* what post_order returns when it returns: None, or a dict with or without
\* "filled_amount"
Responses ==
    {[kind |-> "none"]}
    \cup {[kind |-> "dict", filled |-> f] : f \in {None, Some(18), Some(19), Some(20)}}

ExecIdle ==
    [op |-> "init", client |-> "None", amount |-> 0, side |-> "yes",
     market |-> None, price |-> None, ret |-> "None", exc |-> "None",
     calls |-> <<>>, attempts |-> 0, outcomes |-> <<>>, balance |-> 0,
     response |-> [kind |-> "unread"],
     reported |-> <<>>, trade_log |-> <<>>]

\* PaperPortfolio.add_position: the entry appended, or the exception raised
\* before the append (amount / price with price == 0).
PaperEntry(market, side, amount, price) ==
    [market |-> IF "question" \in DOMAIN market THEN market["question"] ELSE "Unknown",
     side |-> side, shares |-> <<amount, price>>, avg_price |-> price,
     current_value |-> amount, pnl |-> 0]

\* Mutant: the paper position is recorded only when a client is given.
DryRunBuy_NeedsClient(client, amount_usd, side_name, market, price) ==
    LET call == [ExecIdle EXCEPT !.op = "execute_market_buy", !.client = client,
                     !.amount = amount_usd, !.side = side_name,
                     !.market = market, !.price = price]
    IN  IF price.none
        THEN /\ exec_last' = [call EXCEPT !.ret = "raised", !.exc = "TypeError"]
             /\ UNCHANGED paper_positions
        ELSE IF market.none \/ client = "None"
        THEN /\ exec_last' = [call EXCEPT !.ret = "True", !.trade_log = <<"DRY RUN">>]
             /\ UNCHANGED paper_positions
        ELSE IF price.val = 0
        THEN /\ exec_last' = [call EXCEPT !.ret = "True", !.trade_log = <<"DRY RUN">>,
                                 !.reported = <<"paper_record_failed">>]
             /\ UNCHANGED paper_positions
        ELSE /\ Len(paper_positions) < MaxPaper
             /\ exec_last' = [call EXCEPT !.ret = "True", !.trade_log = <<"DRY RUN">>]
             /\ paper_positions' = Append(paper_positions,
                    PaperEntry(market.val, side_name, amount_usd, price.val))

\* execute_market_buy with DRY_RUN set (execution.py lines 54-64).
\* _paper_portfolio is the PaperPortfolio built at import, which is truthy;
\* Len(paper_positions) < MaxPaper only bounds the exploration.
DryRunBuy(client, amount_usd, side_name, market, price) ==
    LET call == [ExecIdle EXCEPT !.op = "execute_market_buy", !.client = client,
                     !.amount = amount_usd, !.side = side_name,
                     !.market = market, !.price = price]
    IN  IF price.none
        THEN \* f"{price:.4f}" with price None: TypeError, outside any try
             /\ exec_last' = [call EXCEPT !.ret = "raised", !.exc = "TypeError"]
             /\ UNCHANGED paper_positions
        ELSE IF market.none
        THEN /\ exec_last' = [call EXCEPT !.ret = "True", !.trade_log = <<"DRY RUN">>]
             /\ UNCHANGED paper_positions
        ELSE IF price.val = 0
        THEN \* ZeroDivisionError in add_position, caught and logged
             /\ exec_last' = [call EXCEPT !.ret = "True", !.trade_log = <<"DRY RUN">>,
                                 !.reported = <<"paper_record_failed">>]
             /\ UNCHANGED paper_positions
        ELSE /\ Len(paper_positions) < MaxPaper
             /\ exec_last' = [call EXCEPT !.ret = "True", !.trade_log = <<"DRY RUN">>]
             /\ paper_positions' = Append(paper_positions,
                    PaperEntry(market.val, side_name, amount_usd, price.val))

\* check_wallet_balance: the balance in USD, the client calls, the errors logged
check_wallet_balance(client, bal) ==
    IF client = "None" \/ bal.kind = "raises"
    THEN [usd |-> 0,
          calls |-> IF client = "None" THEN <<>> ELSE <<"get_balance">>,
          reported |-> <<"balance_check_failed">>]
    ELSE [usd |-> bal.usd,
          calls |-> <<"get_balance">>,
          reported |-> IF bal.usd < WALLET_MIN_BALANCE_USD
                       THEN <<"wallet_low">> ELSE <<>>]

\* Does attempt i of _post_order return a response?
AttemptReturns(client, kinds, i) == client # "None" /\ kinds[i] = "returns"

\* Mutant: the retry wrapper allows one attempt more.
AttemptsMade_OneMore(client, kinds, i) ==
    LET ok == {j \in i .. MAX_ATTEMPTS : AttemptReturns(client, kinds, j)}
    IN  IF ok = {} THEN MAX_ATTEMPTS + 1
        ELSE CHOOSE j \in ok : \A k \in ok : j <= k

\* Mutant: the retry wrapper runs all its attempts, whether or not one returned.
AttemptsMade_IgnoresSuccess(client, kinds, i) == MAX_ATTEMPTS

\* Number of attempts the retry wrapper makes: up to the first attempt that
\* returns, at most MAX_ATTEMPTS.
RECURSIVE AttemptsMade(_, _, _)
AttemptsMade(client, kinds, i) ==
    IF i >= MAX_ATTEMPTS \/ AttemptReturns(client, kinds, i) THEN i
    ELSE AttemptsMade(client, kinds, i + 1)

\* Client calls of attempts 1..n of _post_order
RECURSIVE AttemptCalls(_, _, _)
AttemptCalls(client, kinds, n) ==
    IF n = 0 THEN <<>>
    ELSE AttemptCalls(client, kinds, n - 1) \o
         (IF client = "None" THEN <<>>
          ELSE IF kinds[n] = "create_raises" THEN <<"create_market_buy">>
          ELSE <<"create_market_buy", "post_order">>)

\* What attempts 1..n of _post_order met; without a client every attempt
\* raises AttributeError at client.create_market_buy.
AttemptOutcomes(client, kinds, n) ==
    [i \in 1 .. n |-> IF client = "None" THEN "no_client" ELSE kinds[i]]

\* Mutant: a fill of exactly 95% is flagged too.
PartialFill_Inclusive(filled_amount, amount_usd) ==
    100 * filled_amount <= 95 * amount_usd

\* filled_amount < amount_usd * 0.95, compared exactly
PartialFill(filled_amount, amount_usd) ==
    100 * filled_amount < 95 * amount_usd

\* resp.get("filled_amount", amount_usd)
FilledAmount(resp, amount_usd) ==
    IF resp.kind = "dict" /\ ~resp.filled.none THEN resp.filled.val ELSE amount_usd

\* Mutant: the amount is checked before the wallet balance.
LiveBuy_AmountFirst(client, amount_usd, side_name, bal, kinds, resp) ==
    LET wb == check_wallet_balance(client, bal)
        call == [ExecIdle EXCEPT !.op = "execute_market_buy", !.client = client,
                     !.amount = amount_usd, !.side = side_name,
                     !.balance = wb.usd, !.calls = wb.calls]
        n == AttemptsMade(client, kinds, 1)
        returned == AttemptReturns(client, kinds, n)
        tried == [call EXCEPT !.calls = wb.calls \o AttemptCalls(client, kinds, n),
                      !.attempts = n,
                      !.outcomes = AttemptOutcomes(client, kinds, n),
                      !.response = IF returned THEN resp ELSE [kind |-> "unread"]]
        filled_amount == FilledAmount(resp, amount_usd)
    IN  IF amount_usd <= 0
        THEN [call EXCEPT !.ret = "False",
                 !.reported = wb.reported \o <<"invalid_amount">>]
        ELSE IF wb.usd < WALLET_MIN_BALANCE_USD
        THEN [call EXCEPT !.ret = "False",
                 !.reported = wb.reported \o <<"wallet_balance_check_failed">>]
        ELSE IF ~returned \/ resp.kind = "none"
        THEN \* retries exhausted, or resp.get on None: caught by except
             [tried EXCEPT !.ret = "False",
                 !.reported = wb.reported \o <<"trade_failed">>]
        ELSE [tried EXCEPT !.ret = "True",
                 !.reported = wb.reported \o
                     (IF PartialFill(filled_amount, amount_usd)
                      THEN <<"partial_fill">> ELSE <<>>),
                 !.trade_log = <<"SUCCESS", filled_amount>>]

\* Mutant: resp.get is evaluated outside the try block.
LiveBuy_RespUnchecked(client, amount_usd, side_name, bal, kinds, resp) ==
    LET wb == check_wallet_balance(client, bal)
        call == [ExecIdle EXCEPT !.op = "execute_market_buy", !.client = client,
                     !.amount = amount_usd, !.side = side_name,
                     !.balance = wb.usd, !.calls = wb.calls]
        n == AttemptsMade(client, kinds, 1)
        returned == AttemptReturns(client, kinds, n)
        tried == [call EXCEPT !.calls = wb.calls \o AttemptCalls(client, kinds, n),
                      !.attempts = n,
                      !.outcomes = AttemptOutcomes(client, kinds, n),
                      !.response = IF returned THEN resp ELSE [kind |-> "unread"]]
        filled_amount == FilledAmount(resp, amount_usd)
    IN  IF wb.usd < WALLET_MIN_BALANCE_USD
        THEN [call EXCEPT !.ret = "False",
                 !.reported = wb.reported \o <<"wallet_balance_check_failed">>]
        ELSE IF amount_usd <= 0
        THEN [call EXCEPT !.ret = "False",
                 !.reported = wb.reported \o <<"invalid_amount">>]
        ELSE IF ~returned
        THEN [tried EXCEPT !.ret = "False",
                 !.reported = wb.reported \o <<"trade_failed">>]
        ELSE IF resp.kind = "none"
        THEN [tried EXCEPT !.ret = "raised", !.exc = "AttributeError"]
        ELSE [tried EXCEPT !.ret = "True",
                 !.reported = wb.reported \o
                     (IF PartialFill(filled_amount, amount_usd)
                      THEN <<"partial_fill">> ELSE <<>>),
                 !.trade_log = <<"SUCCESS", filled_amount>>]

\* execute_market_buy without DRY_RUN (execution.py lines 66-104), with the
\* retries of _post_order.
LiveBuy(client, amount_usd, side_name, bal, kinds, resp) ==
    LET wb == check_wallet_balance(client, bal)
        call == [ExecIdle EXCEPT !.op = "execute_market_buy", !.client = client,
                     !.amount = amount_usd, !.side = side_name,
                     !.balance = wb.usd, !.calls = wb.calls]
        n == AttemptsMade(client, kinds, 1)
        returned == AttemptReturns(client, kinds, n)
        tried == [call EXCEPT !.calls = wb.calls \o AttemptCalls(client, kinds, n),
                      !.attempts = n,
                      !.outcomes = AttemptOutcomes(client, kinds, n),
                      !.response = IF returned THEN resp ELSE [kind |-> "unread"]]
        filled_amount == FilledAmount(resp, amount_usd)
    IN  IF wb.usd < WALLET_MIN_BALANCE_USD
        THEN [call EXCEPT !.ret = "False",
                 !.reported = wb.reported \o <<"wallet_balance_check_failed">>]
        ELSE IF amount_usd <= 0
        THEN [call EXCEPT !.ret = "False",
                 !.reported = wb.reported \o <<"invalid_amount">>]
        ELSE IF ~returned \/ resp.kind = "none"
        THEN \* retries exhausted, or resp.get on None: caught by except
             [tried EXCEPT !.ret = "False",
                 !.reported = wb.reported \o <<"trade_failed">>]
        ELSE [tried EXCEPT !.ret = "True",
                 !.reported = wb.reported \o
                     (IF PartialFill(filled_amount, amount_usd)
                      THEN <<"partial_fill">> ELSE <<>>),
                 !.trade_log = <<"SUCCESS", filled_amount>>]

execute_market_buy(client, amount_usd, side_name, market, price, bal, kinds, resp) ==
    /\ IF DRY_RUN
       THEN DryRunBuy(client, amount_usd, side_name, market, price)
       ELSE /\ exec_last' = LiveBuy(client, amount_usd, side_name, bal, kinds, resp)
            /\ UNCHANGED paper_positions
    /\ UNCHANGED <<limits_vars, last, config_vars, runtime_vars, metrics_vars, limits_pc, monitor_vars>>

\* Module initialisation of execution.py: _paper_portfolio is an empty
\* PaperPortfolio under DRY_RUN and None otherwise.
ExecInit ==
    /\ paper_positions = <<>>
    /\ exec_last = ExecIdle

(***************************************************************************)
(* PositionMonitor (src/monitoring.py lines 12-150), the position ledger.  *)
(* Every method runs its body inside "with self.lock"; a call is modelled  *)
(* by the step that enters the method (and takes the lock), the steps of   *)
(* its body, and the step that returns (and releases the lock).  Prices    *)
(* and P&L are floats in price quanta; entry_time and exit_time are not    *)
(* modelled, market_name is the market id.                                 *)
(***************************************************************************)
\* The polling loop and a reader of the ledger (display, telemetry).
Threads == {"main", "display"}
MonitorMarkets == {1, 2}
MonitorPrices == {2, 3}
MonitorShares == {10}
\* Market data handed to update_prices_from_market: well formed, without
\* "id", without "no".
MarketFeeds ==
    {[id |-> m, yes |-> y, no |-> 5 - y] : m \in MonitorMarkets, y \in MonitorPrices}
    \cup {[yes |-> 2, no |-> 3], [id |-> 1, yes |-> 3]}
\* get_summary lists the last 10 closed positions
SUMMARY_WINDOW == 10

FrameIdle ==
    [pc |-> "idle", op |-> "none", held |-> FALSE, args |-> <<>>,
     pos |-> None, ret |-> None]

MonitorInit ==
    /\ positions = <<>>
    /\ closed_positions = <<>>
    /\ lock = "free"
    /\ frame = [t \in Threads |-> FrameIdle]

\* Mutant: the side is ignored.
Pnl_IgnoresSide(side, entry_price, price, shares) ==
    Fl(Fl(price - entry_price) * shares)

\* (price - entry_price) * shares for yes, (entry_price - price) * shares
\* otherwise (monitoring.py lines 51-55 and 86-90)
Pnl(side, entry_price, price, shares) ==
    IF side = "yes" THEN Fl(Fl(price - entry_price) * shares)
    ELSE Fl(Fl(entry_price - price) * shares)

\* (pnl / (entry_price * shares)) * 100 if entry_price > 0 else 0; the
\* quotient is kept as the pair of its operands.
PnlPct(pnl, entry_price, shares) ==
    IF entry_price > 0 THEN <<pnl, Fl(entry_price * shares)>> ELSE 0

\* sum(p.get("realized_pnl", 0) for p in closed), added left to right
RECURSIVE SumRealized(_)
SumRealized(closed) ==
    IF closed = <<>> THEN 0
    ELSE Fl(SumRealized(SubSeq(closed, 1, Len(closed) - 1))
            + closed[Len(closed)].realized_pnl)

\* Mutant: the window holds the oldest records.
Recent_Oldest(closed) ==
    IF Len(closed) <= SUMMARY_WINDOW THEN closed
    ELSE SubSeq(closed, 1, SUMMARY_WINDOW)

\* closed[-SUMMARY_WINDOW:]
Recent(closed) ==
    IF Len(closed) <= SUMMARY_WINDOW THEN closed
    ELSE SubSeq(closed, Len(closed) - SUMMARY_WINDOW + 1, Len(closed))

\* The dict without key k (dict.pop)
Without(d, k) == [m \in DOMAIN d \ {k} |-> d[m]]

\* The dict with d[k] = v
With(d, k, v) == [m \in DOMAIN d \cup {k} |-> IF m = k THEN v ELSE d[m]]

\* Mutant: the method body is entered whether or not the lock is free.
Enter_NoWait(t, op, args) ==
    /\ frame[t].pc = "idle"
    /\ lock' = t
    /\ frame' = [frame EXCEPT ![t] =
           [FrameIdle EXCEPT !.pc = "locked", !.op = op, !.held = TRUE,
                             !.args = args]]
    /\ UNCHANGED <<positions, closed_positions>>

\* "with self.lock:" entered by thread t for a call of op with args; blocks
\* while another thread is inside.
Enter(t, op, args) ==
    /\ frame[t].pc = "idle"
    /\ lock = "free"
    /\ lock' = t
    /\ frame' = [frame EXCEPT ![t] =
           [FrameIdle EXCEPT !.pc = "locked", !.op = op, !.held = TRUE,
                             !.args = args]]
    /\ UNCHANGED <<positions, closed_positions>>

\* Thread t is at the body of op, the lock taken on entry.
AtBody(t, op) == frame[t].pc = "locked" /\ frame[t].op = op

\* The body of thread t's call ends with result ret.
Done(t, ret) ==
    frame' = [frame EXCEPT ![t].pc = "done", ![t].ret = ret]

\* Leaving the with block: the lock is released and the call returns.
Monitor_return(t) ==
    /\ frame[t].pc = "done"
    /\ lock' = IF frame[t].held THEN "free" ELSE lock
    /\ frame' = [frame EXCEPT ![t] = FrameIdle]
    /\ UNCHANGED <<positions, closed_positions>>
    /\ UNCHANGED <<limits_vars, last, config_vars, runtime_vars, metrics_vars, limits_pc, exec_vars>>

\* open_position (lines 20-35)
open_position_enter(t, market_id, side, shares, entry_price) ==
    /\ Enter(t, "open_position",
             [market_id |-> market_id, side |-> side, shares |-> shares,
              entry_price |-> entry_price])
    /\ UNCHANGED <<limits_vars, last, config_vars, runtime_vars, metrics_vars, limits_pc, exec_vars>>

\* Mutant: a market that has a position keeps it.
open_position_body_KeepsFirst(t) ==
    /\ AtBody(t, "open_position")
    /\ LET a == frame[t].args
       IN  /\ positions' =
                 IF a.market_id \in DOMAIN positions THEN positions
                 ELSE With(positions, a.market_id,
                          [side |-> a.side, shares |-> a.shares,
                           entry_price |-> a.entry_price,
                           current_price |-> a.entry_price,
                           market_name |-> a.market_id])
           /\ frame' = [frame EXCEPT ![t].pc = "done", ![t].ret = None,
                  ![t].pos = IF a.market_id \in DOMAIN positions
                             THEN Some(positions[a.market_id]) ELSE None]
    /\ UNCHANGED <<closed_positions, lock>>
    /\ UNCHANGED <<limits_vars, last, config_vars, runtime_vars, metrics_vars, limits_pc, exec_vars>>

\* The assignment at lines 25-32 drops the position the market had, if any;
\* the frame remembers it (history only, the code keeps no reference).
open_position_body(t) ==
    /\ AtBody(t, "open_position")
    /\ LET a == frame[t].args
       IN  /\ positions' = With(positions, a.market_id,
                   [side |-> a.side, shares |-> a.shares,
                    entry_price |-> a.entry_price,
                    current_price |-> a.entry_price,
                    market_name |-> a.market_id])
           /\ frame' = [frame EXCEPT ![t].pc = "done", ![t].ret = None,
                  ![t].pos = IF a.market_id \in DOMAIN positions
                             THEN Some(positions[a.market_id]) ELSE None]
    /\ UNCHANGED <<closed_positions, lock>>
    /\ UNCHANGED <<limits_vars, last, config_vars, runtime_vars, metrics_vars, limits_pc, exec_vars>>

\* update_position_price (lines 37-71)
update_position_price_enter(t, market_id, current_price) ==
    /\ Enter(t, "update_position_price",
             [market_id |-> market_id, current_price |-> current_price])
    /\ UNCHANGED <<limits_vars, last, config_vars, runtime_vars, metrics_vars, limits_pc, exec_vars>>

\* Mutant: a market without a position gets one at the price given.
update_position_price_body_Creates(t) ==
    /\ AtBody(t, "update_position_price")
    /\ LET a == frame[t].args
           pos == IF a.market_id \in DOMAIN positions
                  THEN positions[a.market_id]
                  ELSE [side |-> "yes", shares |-> 10,
                        entry_price |-> a.current_price,
                        current_price |-> a.current_price,
                        market_name |-> a.market_id]
           unrealized_pnl ==
               Pnl(pos.side, pos.entry_price, a.current_price, pos.shares)
       IN  /\ positions' = With(positions, a.market_id,
                   [pos EXCEPT !.current_price = a.current_price])
           /\ Done(t, Some([market_id |-> a.market_id, side |-> pos.side,
                       shares |-> pos.shares,
                       entry_price |-> pos.entry_price,
                       current_price |-> a.current_price,
                       unrealized_pnl |-> unrealized_pnl,
                       unrealized_pct |->
                           PnlPct(unrealized_pnl, pos.entry_price, pos.shares)]))
    /\ UNCHANGED <<closed_positions, lock>>
    /\ UNCHANGED <<limits_vars, last, config_vars, runtime_vars, metrics_vars, limits_pc, exec_vars>>

update_position_price_body(t) ==
    /\ AtBody(t, "update_position_price")
    /\ LET a == frame[t].args
       IN  IF a.market_id \notin DOMAIN positions
           THEN \* return {}
                /\ Done(t, Some(<<>>))
                /\ UNCHANGED positions
           ELSE LET pos == positions[a.market_id]
                    unrealized_pnl ==
                        Pnl(pos.side, pos.entry_price, a.current_price, pos.shares)
                IN  /\ positions' = With(positions, a.market_id,
                            [pos EXCEPT !.current_price = a.current_price])
                    /\ Done(t, Some([market_id |-> a.market_id, side |-> pos.side,
                                shares |-> pos.shares,
                                entry_price |-> pos.entry_price,
                                current_price |-> a.current_price,
                                unrealized_pnl |-> unrealized_pnl,
                                unrealized_pct |->
                                    PnlPct(unrealized_pnl, pos.entry_price,
                                           pos.shares)]))
    /\ UNCHANGED <<closed_positions, lock>>
    /\ UNCHANGED <<limits_vars, last, config_vars, runtime_vars, metrics_vars, limits_pc, exec_vars>>

\* Mutant: close_position runs its body without taking the lock.
Monitor_close_position_enter_NoLock(t, market_id, exit_price) ==
    /\ frame[t].pc = "idle"
    /\ frame' = [frame EXCEPT ![t] =
           [FrameIdle EXCEPT !.pc = "locked", !.op = "close_position",
                !.args = [market_id |-> market_id, exit_price |-> exit_price,
                          reason |-> "Market closed"]]]
    /\ UNCHANGED <<positions, closed_positions, lock>>
    /\ UNCHANGED <<limits_vars, last, config_vars, runtime_vars, metrics_vars, limits_pc, exec_vars>>

\* PositionMonitor.close_position (lines 73-117), reason left at its
\* default.
Monitor_close_position_enter(t, market_id, exit_price) ==
    /\ Enter(t, "close_position",
             [market_id |-> market_id, exit_price |-> exit_price,
              reason |-> "Market closed"])
    /\ UNCHANGED <<limits_vars, last, config_vars, runtime_vars, metrics_vars, limits_pc, exec_vars>>

\* lines 78-81: not found, or pos = self.positions.pop(market_id)
Monitor_close_position_pop(t) ==
    /\ AtBody(t, "close_position")
    /\ LET a == frame[t].args
       IN  IF a.market_id \notin DOMAIN positions
           THEN /\ Done(t, None)
                /\ UNCHANGED positions
           ELSE /\ positions' = Without(positions, a.market_id)
                /\ frame' = [frame EXCEPT ![t].pc = "popped",
                                 ![t].pos = Some(positions[a.market_id])]
    /\ UNCHANGED <<closed_positions, lock>>
    /\ UNCHANGED <<limits_vars, last, config_vars, runtime_vars, metrics_vars, limits_pc, exec_vars>>

\* Mutant: the closed record is put at the front of the history.
Monitor_close_position_append_Front(t) ==
    /\ frame[t].pc = "popped"
    /\ LET a == frame[t].args
           pos == frame[t].pos.val
           realized_pnl == Pnl(pos.side, pos.entry_price, a.exit_price, pos.shares)
           closed == [market_id |-> a.market_id, side |-> pos.side,
                      shares |-> pos.shares, entry_price |-> pos.entry_price,
                      exit_price |-> a.exit_price,
                      realized_pnl |-> realized_pnl,
                      realized_pct |->
                          PnlPct(realized_pnl, pos.entry_price, pos.shares),
                      reason |-> a.reason]
       IN  /\ closed_positions' = <<closed>> \o closed_positions
           /\ Done(t, Some(closed))
    /\ UNCHANGED <<positions, lock>>
    /\ UNCHANGED <<limits_vars, last, config_vars, runtime_vars, metrics_vars, limits_pc, exec_vars>>

\* lines 82-117: the closed record is built, appended and returned
Monitor_close_position_append(t) ==
    /\ frame[t].pc = "popped"
    /\ LET a == frame[t].args
           pos == frame[t].pos.val
           realized_pnl == Pnl(pos.side, pos.entry_price, a.exit_price, pos.shares)
           closed == [market_id |-> a.market_id, side |-> pos.side,
                      shares |-> pos.shares, entry_price |-> pos.entry_price,
                      exit_price |-> a.exit_price,
                      realized_pnl |-> realized_pnl,
                      realized_pct |->
                          PnlPct(realized_pnl, pos.entry_price, pos.shares),
                      reason |-> a.reason]
       IN  /\ closed_positions' = Append(closed_positions, closed)
           /\ Done(t, Some(closed))
    /\ UNCHANGED <<positions, lock>>
    /\ UNCHANGED <<limits_vars, last, config_vars, runtime_vars, metrics_vars, limits_pc, exec_vars>>

\* get_all_positions (lines 119-122): the open positions; the order of the
\* list is not modelled.
get_all_positions_enter(t) ==
    /\ Enter(t, "get_all_positions", <<>>)
    /\ UNCHANGED <<limits_vars, last, config_vars, runtime_vars, metrics_vars, limits_pc, exec_vars>>

get_all_positions_body(t) ==
    /\ AtBody(t, "get_all_positions")
    /\ Done(t, Some({positions[m] : m \in DOMAIN positions}))
    /\ UNCHANGED <<positions, closed_positions, lock>>
    /\ UNCHANGED <<limits_vars, last, config_vars, runtime_vars, metrics_vars, limits_pc, exec_vars>>

\* Does update_prices_from_market go past its first check (lines 126-127)?
WellFormed(market) ==
    "id" \in DOMAIN market /\ "yes" \in DOMAIN market /\ "no" \in DOMAIN market

\* update_prices_from_market (lines 124-139): market data without "id" or
\* without both prices returns before the lock is taken.
update_prices_from_market_enter(t, market) ==
    /\ IF WellFormed(market)
       THEN Enter(t, "update_prices_from_market", [market |-> market])
       ELSE /\ frame[t].pc = "idle"
            /\ frame' = [frame EXCEPT ![t] =
                   [FrameIdle EXCEPT !.pc = "done",
                        !.op = "update_prices_from_market",
                        !.args = [market |-> market]]]
            /\ UNCHANGED <<positions, closed_positions, lock>>
    /\ UNCHANGED <<limits_vars, last, config_vars, runtime_vars, metrics_vars, limits_pc, exec_vars>>

\* Mutant: the feed price is stored as the entry price.
update_prices_from_market_body_Entry(t) ==
    /\ AtBody(t, "update_prices_from_market")
    /\ LET market == frame[t].args.market
           market_id == market.id
       IN  IF market_id \notin DOMAIN positions
           THEN UNCHANGED positions
           ELSE LET pos == positions[market_id]
                    current_price == IF pos.side \in DOMAIN market
                                     THEN market[pos.side]
                                     ELSE pos.entry_price
                IN  positions' = With(positions, market_id,
                        [pos EXCEPT !.entry_price = current_price])
    /\ Done(t, None)
    /\ UNCHANGED <<closed_positions, lock>>
    /\ UNCHANGED <<limits_vars, last, config_vars, runtime_vars, metrics_vars, limits_pc, exec_vars>>

update_prices_from_market_body(t) ==
    /\ AtBody(t, "update_prices_from_market")
    /\ LET market == frame[t].args.market
           market_id == market.id
       IN  IF market_id \notin DOMAIN positions
           THEN UNCHANGED positions
           ELSE LET pos == positions[market_id]
                    \* market.get(side, pos["entry_price"])
                    current_price == IF pos.side \in DOMAIN market
                                     THEN market[pos.side]
                                     ELSE pos.entry_price
                IN  positions' = With(positions, market_id,
                        [pos EXCEPT !.current_price = current_price])
    /\ Done(t, None)
    /\ UNCHANGED <<closed_positions, lock>>
    /\ UNCHANGED <<limits_vars, last, config_vars, runtime_vars, metrics_vars, limits_pc, exec_vars>>

\* get_summary (lines 141-150)
get_summary_enter(t) ==
    /\ Enter(t, "get_summary", <<>>)
    /\ UNCHANGED <<limits_vars, last, config_vars, runtime_vars, metrics_vars, limits_pc, exec_vars>>

get_summary_body(t) ==
    /\ AtBody(t, "get_summary")
    /\ Done(t, Some([open_positions |-> Cardinality(DOMAIN positions),
                     closed_positions |-> Len(closed_positions),
                     total_realized_pnl |-> SumRealized(closed_positions),
                     closed_position_list |-> Recent(closed_positions)]))
    /\ UNCHANGED <<positions, closed_positions, lock>>
    /\ UNCHANGED <<limits_vars, last, config_vars, runtime_vars, metrics_vars, limits_pc, exec_vars>>

(***************************************************************************)
(* TradeMetrics (src/monitoring.py lines 154-238).  The class has no lock. *)
(* Losses are floats in currency quanta; the timestamp of a trade is not   *)
(* modelled.                                                               *)
(***************************************************************************)
\* TradeMetrics(loss_limit_usd=50.0, loss_streak_alert=3)
loss_streak_alert == 3

MetricPnls == {0 - 5, 0 - 1, 0, 1}

MetricsIdle ==
    [op |-> "init", pnl |-> 0, ret |-> None, exc |-> "None",
     reported |-> <<>>, info |-> <<>>]

\* TradeMetrics.__init__
MetricsInit ==
    /\ trades = <<>>
    /\ daily_loss_usd = 0
    /\ loss_streak = 0
    /\ metrics_last = MetricsIdle
    /\ pnl_events = <<>>

Abs(x) == IF x < 0 THEN 0 - x ELSE x

\* record_trade (lines 163-186).  Len(trades) < MaxTrades only bounds the
\* exploration.
record_trade(market_id, side, amount_usd, price, is_dry_run) ==
    /\ Len(trades) < MaxTrades
    /\ trades' = Append(trades,
           [market_id |-> market_id, side |-> side, amount_usd |-> amount_usd,
            price |-> price, is_dry_run |-> is_dry_run])
    /\ metrics_last' = [MetricsIdle EXCEPT !.op = "record_trade",
                            !.info = <<"Trade recorded">>]
    /\ UNCHANGED <<daily_loss_usd, loss_streak, pnl_events>>
    /\ UNCHANGED <<limits_vars, last, config_vars, runtime_vars, exec_vars, monitor_vars, limits_pc>>

\* Mutant: the loss alert fires when the limit is reached (>= for >).
LossAlerts_Inclusive(loss, streak) ==
    (IF loss >= loss_limit_usd THEN <<"daily_loss_limit_breach">> ELSE <<>>)
    \o (IF streak >= loss_streak_alert THEN <<"loss_streak_alert">> ELSE <<>>)

\* The alerts record_pnl logs after a loss (lines 195-207)
LossAlerts(loss, streak) ==
    (IF loss > loss_limit_usd THEN <<"daily_loss_limit_breach">> ELSE <<>>)
    \o (IF streak >= loss_streak_alert THEN <<"loss_streak_alert">> ELSE <<>>)

\* Mutant: a P&L of zero leaves the streak as it is.
StreakAfter_ZeroKeeps(streak, pnl_usd) ==
    IF pnl_usd < 0 THEN streak + 1
    ELSE IF pnl_usd = 0 THEN streak ELSE 0

\* loss_streak after record_pnl (lines 192, 209)
StreakAfter(streak, pnl_usd) == IF pnl_usd < 0 THEN streak + 1 ELSE 0

\* Mutant: a gain is subtracted from the accumulated loss.
LossAfter_Netted(loss, pnl_usd) ==
    IF pnl_usd < 0 THEN Fl(loss + Abs(pnl_usd))
    ELSE IF loss >= pnl_usd THEN Fl(loss - pnl_usd) ELSE 0

\* daily_loss_usd after record_pnl (line 191)
LossAfter(loss, pnl_usd) ==
    IF pnl_usd < 0 THEN Fl(loss + Abs(pnl_usd)) ELSE loss

\* record_pnl (lines 188-210); market_id is not used.
\* Len(pnl_events) < MaxPnlEvents only bounds the exploration.
record_pnl(market_id, pnl_usd) ==
    /\ Len(pnl_events) < MaxPnlEvents
    /\ daily_loss_usd' = LossAfter(daily_loss_usd, pnl_usd)
    /\ loss_streak' = StreakAfter(loss_streak, pnl_usd)
    /\ metrics_last' =
           [MetricsIdle EXCEPT !.op = "record_pnl", !.pnl = pnl_usd,
                !.reported = IF pnl_usd < 0
                             THEN LossAlerts(daily_loss_usd', loss_streak')
                             ELSE <<>>,
                !.info = IF pnl_usd < 0 THEN <<"Loss recorded">>
                         ELSE <<"Win recorded">>]
    /\ pnl_events' = Append(pnl_events, [kind |-> "pnl", pnl |-> pnl_usd])
    /\ UNCHANGED trades
    /\ UNCHANGED <<limits_vars, last, config_vars, runtime_vars, exec_vars, monitor_vars, limits_pc>>

CountDryRun(flag) == Cardinality({i \in 1 .. Len(trades) : trades[i].is_dry_run = flag})

\* The dict get_statistics returns (lines 212-223)
Statistics ==
    IF trades = <<>> THEN [trades |-> 0]
    ELSE [total_trades |-> Len(trades),
          dry_run_trades |-> CountDryRun(TRUE),
          live_trades |-> CountDryRun(FALSE),
          daily_loss_usd |-> daily_loss_usd,
          current_loss_streak |-> loss_streak]

get_statistics ==
    /\ metrics_last' = [MetricsIdle EXCEPT !.op = "get_statistics",
                            !.ret = Some(Statistics)]
    /\ UNCHANGED <<trades, daily_loss_usd, loss_streak, pnl_events>>
    /\ UNCHANGED <<limits_vars, last, config_vars, runtime_vars, exec_vars, monitor_vars, limits_pc>>

\* Mutant: the reset keeps the loss streak.
reset_daily_stats_KeepsStreak ==
    /\ Len(pnl_events) < MaxPnlEvents
    /\ daily_loss_usd' = 0
    /\ metrics_last' = [MetricsIdle EXCEPT !.op = "reset_daily_stats",
                            !.info = <<"Daily metrics reset">>]
    /\ pnl_events' = Append(pnl_events, [kind |-> "reset", pnl |-> 0])
    /\ UNCHANGED <<trades, loss_streak>>
    /\ UNCHANGED <<limits_vars, last, config_vars, runtime_vars, exec_vars, monitor_vars, limits_pc>>

\* reset_daily_stats (lines 225-229)
reset_daily_stats ==
    /\ Len(pnl_events) < MaxPnlEvents
    /\ daily_loss_usd' = 0
    /\ loss_streak' = 0
    /\ metrics_last' = [MetricsIdle EXCEPT !.op = "reset_daily_stats",
                            !.info = <<"Daily metrics reset">>]
    /\ pnl_events' = Append(pnl_events, [kind |-> "reset", pnl |-> 0])
    /\ UNCHANGED trades
    /\ UNCHANGED <<limits_vars, last, config_vars, runtime_vars, exec_vars, monitor_vars, limits_pc>>

\* print_summary (lines 231-238): stats['total_trades'] on the dict of
\* get_statistics
print_summary ==
    /\ metrics_last' =
           IF "total_trades" \in DOMAIN Statistics
           THEN [MetricsIdle EXCEPT !.op = "print_summary", !.info = <<"Metrics">>]
           ELSE [MetricsIdle EXCEPT !.op = "print_summary", !.exc = "KeyError"]
    /\ UNCHANGED <<trades, daily_loss_usd, loss_streak, pnl_events>>
    /\ UNCHANGED <<limits_vars, last, config_vars, runtime_vars, exec_vars, monitor_vars, limits_pc>>

(***************************************************************************)
(* The live path of execute_market_buy step by step (execution.py lines    *)
(* 66-104): the thread running it goes through the client calls and the    *)
(* backoff delays of the call one after the other.  The function takes no  *)
(* lock and calls no method of PositionMonitor, PositionLimits or          *)
(* TradeMetrics.                                                           *)
(***************************************************************************)
ExecPcIdle ==
    [pc |-> "idle", thread |-> "none", at |-> 0, places |-> <<>>,
     result |-> ExecIdle]

\* Where attempt i of _post_order blocks: tenacity waits before every attempt
\* but the first (line 80), then lines 83 and 84 call the client.
AttemptPlaces(out, i) ==
    (IF i > 1 THEN <<"backoff">> ELSE <<>>) \o
    (IF out[i] = "no_client" THEN <<>>
     ELSE IF out[i] = "create_raises" THEN <<"create_market_buy">>
     ELSE <<"create_market_buy", "post_order">>)

RECURSIVE RetryPlaces(_, _)
RetryPlaces(out, n) ==
    IF n = 0 THEN <<>> ELSE RetryPlaces(out, n - 1) \o AttemptPlaces(out, n)

\* The network calls and delays of a live call, in order: get_balance inside
\* check_wallet_balance (line 30), then the attempts.
NetworkPlaces(call) ==
    (IF call.client = "None" THEN <<>> ELSE <<"get_balance">>) \o
    RetryPlaces(call.outcomes, call.attempts)

\* Mutant: the call is made inside the ledger's lock.
execute_market_buy_begin_Locked(t, client, amount_usd, side_name, bal, kinds, resp) ==
    /\ ~DRY_RUN
    /\ exec_pc.pc = "idle"
    /\ frame[t].pc = "idle"
    /\ lock = "free"
    /\ lock' = t
    /\ LET result == LiveBuy(client, amount_usd, side_name, bal, kinds, resp)
       IN  exec_pc' = [pc |-> "running", thread |-> t, at |-> 0,
                       places |-> NetworkPlaces(result), result |-> result]
    /\ UNCHANGED <<positions, closed_positions, frame>>
    /\ UNCHANGED <<limits_vars, last, config_vars, metrics_vars, limits_pc, exec_vars>>
    /\ UNCHANGED <<metrics_pc, approvals, bot, balance_stack>>

\* Thread t calls execute_market_buy in live mode (line 66 is reached); a
\* thread makes one call at a time.
execute_market_buy_begin(t, client, amount_usd, side_name, bal, kinds, resp) ==
    /\ ~DRY_RUN
    /\ exec_pc.pc = "idle"
    /\ frame[t].pc = "idle"
    /\ LET result == LiveBuy(client, amount_usd, side_name, bal, kinds, resp)
       IN  exec_pc' = [pc |-> "running", thread |-> t, at |-> 0,
                       places |-> NetworkPlaces(result), result |-> result]
    /\ UNCHANGED <<limits_vars, last, config_vars, metrics_vars, limits_pc, exec_vars, monitor_vars>>
    /\ UNCHANGED <<metrics_pc, approvals, bot, balance_stack>>

\* The call enters its next client call or backoff delay.
execute_market_buy_step ==
    /\ exec_pc.pc = "running"
    /\ exec_pc.at < Len(exec_pc.places)
    /\ exec_pc' = [exec_pc EXCEPT !.at = @ + 1]
    /\ UNCHANGED <<limits_vars, last, config_vars, metrics_vars, limits_pc, exec_vars, monitor_vars>>
    /\ UNCHANGED <<metrics_pc, approvals, bot, balance_stack>>

\* The last client call is over: the result is logged and returned (lines
\* 68-76 and 89-104).
execute_market_buy_end ==
    /\ exec_pc.pc = "running"
    /\ exec_pc.at = Len(exec_pc.places)
    /\ exec_last' = exec_pc.result
    /\ exec_pc' = ExecPcIdle
    /\ UNCHANGED paper_positions
    /\ UNCHANGED <<limits_vars, last, config_vars, metrics_vars, limits_pc, monitor_vars>>
    /\ UNCHANGED <<metrics_pc, approvals, bot, balance_stack>>

\* The thread running execute_market_buy is inside a client call or a
\* backoff delay.
InFlight == exec_pc.pc = "running" /\ exec_pc.at >= 1

(***************************************************************************)
(* TradeMetrics.record_pnl statement by statement (monitoring.py lines     *)
(* 188-210).  The class has no lock, and "self.x += v" reads the           *)
(* attribute, adds, and stores the result, so a second thread can run      *)
(* between any two of these steps.                                         *)
(***************************************************************************)
MetricsPcIdle == [pc |-> "idle", pnl |-> 0, tmp |-> 0]

\* line 190: if pnl_usd < 0.  Len(pnl_events) < MaxPnlEvents only bounds the
\* exploration.
record_pnl_enter(t, pnl_usd) ==
    /\ metrics_pc[t].pc = "idle"
    /\ Len(pnl_events) < MaxPnlEvents
    /\ metrics_pc' = [metrics_pc EXCEPT ![t] =
           [pc |-> IF pnl_usd < 0 THEN "load_loss" ELSE "win",
            pnl |-> pnl_usd, tmp |-> 0]]
    /\ pnl_events' = Append(pnl_events, [kind |-> "pnl", pnl |-> pnl_usd])
    /\ UNCHANGED <<trades, daily_loss_usd, loss_streak, metrics_last>>
    /\ UNCHANGED <<limits_vars, last, config_vars, exec_vars, monitor_vars, limits_pc>>
    /\ UNCHANGED <<exec_pc, approvals, bot, balance_stack>>

\* line 191, the read of self.daily_loss_usd
record_pnl_load_loss(t) ==
    /\ metrics_pc[t].pc = "load_loss"
    /\ metrics_pc' = [metrics_pc EXCEPT ![t].pc = "store_loss",
                                        ![t].tmp = daily_loss_usd]
    /\ UNCHANGED metrics_vars
    /\ UNCHANGED <<limits_vars, last, config_vars, exec_vars, monitor_vars, limits_pc>>
    /\ UNCHANGED <<exec_pc, approvals, bot, balance_stack>>

\* line 191, the store of the sum
record_pnl_store_loss(t) ==
    /\ metrics_pc[t].pc = "store_loss"
    /\ daily_loss_usd' = Fl(metrics_pc[t].tmp + Abs(metrics_pc[t].pnl))
    /\ metrics_pc' = [metrics_pc EXCEPT ![t].pc = "load_streak"]
    /\ UNCHANGED <<trades, loss_streak, metrics_last, pnl_events>>
    /\ UNCHANGED <<limits_vars, last, config_vars, exec_vars, monitor_vars, limits_pc>>
    /\ UNCHANGED <<exec_pc, approvals, bot, balance_stack>>

\* line 192, the read of self.loss_streak
record_pnl_load_streak(t) ==
    /\ metrics_pc[t].pc = "load_streak"
    /\ metrics_pc' = [metrics_pc EXCEPT ![t].pc = "store_streak",
                                        ![t].tmp = loss_streak]
    /\ UNCHANGED metrics_vars
    /\ UNCHANGED <<limits_vars, last, config_vars, exec_vars, monitor_vars, limits_pc>>
    /\ UNCHANGED <<exec_pc, approvals, bot, balance_stack>>

\* line 192, the store of the incremented streak
record_pnl_store_streak(t) ==
    /\ metrics_pc[t].pc = "store_streak"
    /\ loss_streak' = metrics_pc[t].tmp + 1
    /\ metrics_pc' = [metrics_pc EXCEPT ![t].pc = "alerts"]
    /\ UNCHANGED <<trades, daily_loss_usd, metrics_last, pnl_events>>
    /\ UNCHANGED <<limits_vars, last, config_vars, exec_vars, monitor_vars, limits_pc>>
    /\ UNCHANGED <<exec_pc, approvals, bot, balance_stack>>

\* lines 193-207: the log line and the two alerts, and the call returns
record_pnl_alerts(t) ==
    /\ metrics_pc[t].pc = "alerts"
    /\ metrics_last' =
           [MetricsIdle EXCEPT !.op = "record_pnl", !.pnl = metrics_pc[t].pnl,
                !.reported = LossAlerts(daily_loss_usd, loss_streak),
                !.info = <<"Loss recorded">>]
    /\ metrics_pc' = [metrics_pc EXCEPT ![t] = MetricsPcIdle]
    /\ UNCHANGED <<trades, daily_loss_usd, loss_streak, pnl_events>>
    /\ UNCHANGED <<limits_vars, last, config_vars, exec_vars, monitor_vars, limits_pc>>
    /\ UNCHANGED <<exec_pc, approvals, bot, balance_stack>>

\* lines 208-210: a gain or a zero P&L resets the streak, and the call returns
record_pnl_win(t) ==
    /\ metrics_pc[t].pc = "win"
    /\ loss_streak' = 0
    /\ metrics_last' =
           [MetricsIdle EXCEPT !.op = "record_pnl", !.pnl = metrics_pc[t].pnl,
                !.info = <<"Win recorded">>]
    /\ metrics_pc' = [metrics_pc EXCEPT ![t] = MetricsPcIdle]
    /\ UNCHANGED <<trades, daily_loss_usd, pnl_events>>
    /\ UNCHANGED <<limits_vars, last, config_vars, exec_vars, monitor_vars, limits_pc>>
    /\ UNCHANGED <<exec_pc, approvals, bot, balance_stack>>

(***************************************************************************)
(* Several order-placing callers of PositionLimits: each runs can_trade    *)
(* and, when it was approved, add_position (position_limits.py lines       *)
(* 23-70).  Nothing ties the two calls together, so the calls of different *)
(* callers interleave.                                                     *)
(***************************************************************************)
Callers == {"a", "b"}

\* A caller that has not called can_trade yet.
CallerIdle == [state |-> "none", market |-> 0, amount |-> 0]

\* Caller c calls can_trade(market_id, amount_usd) and keeps the answer.
caller_can_trade(c, market_id, amount_usd) ==
    LET check == CanTradeCheck(market_id, amount_usd)
    IN  /\ approvals[c].state # "approved"
        /\ last' = Call("can_trade", market_id, amount_usd,
                        IF check = "ok" THEN "True" ELSE "False",
                        IF check = "ok" THEN <<>> ELSE <<check>>, <<>>)
        /\ approvals' = [approvals EXCEPT ![c] =
               IF check = "ok"
               THEN [state |-> "approved", market |-> market_id,
                     amount |-> amount_usd]
               ELSE CallerIdle]
        /\ UNCHANGED <<limits_vars, config_vars, metrics_vars, limits_pc, exec_vars, monitor_vars>>
        /\ UNCHANGED <<exec_pc, metrics_pc, bot, balance_stack>>

\* Caller c records the trade it was approved for.  The first three
\* conjuncts only bound the exploration.
caller_add_position(c) ==
    LET market_id == approvals[c].market
        amount_usd == approvals[c].amount
    IN  /\ approvals[c].state = "approved"
        /\ Fl(total_exposure_usd + amount_usd) <= MaxTotal
        /\ daily_trade_count < MAX_DAILY_TRADES + MaxExtraTrades
        /\ WithinDrift(AddedPositions(market_id, amount_usd),
                       Fl(total_exposure_usd + amount_usd))
        /\ active_positions' = AddedPositions(market_id, amount_usd)
        /\ total_exposure_usd' = Fl(total_exposure_usd + amount_usd)
        /\ daily_trade_count' = daily_trade_count + 1
        /\ last' = Call("add_position", market_id, amount_usd, "None", <<>>,
                        <<"Position added">>)
        /\ approvals' = [approvals EXCEPT ![c].state = "added"]
        /\ UNCHANGED <<config_vars, metrics_vars, limits_pc, exec_vars, monitor_vars>>
        /\ UNCHANGED <<exec_pc, metrics_pc, bot, balance_stack>>

(***************************************************************************)
(* The balance helper get_client attaches to the client (client.py lines   *)
(* 32-100).  Line 100 stores get_balance_safe as client.get_balance, and   *)
(* _get_balance_direct (lines 32-39) calls client.get_balance(): the       *)
(* direct probe of the helper calls the helper.  The nesting ends when the *)
(* interpreter's recursion limit raises RecursionError, which the probe's  *)
(* "except Exception" catches.  A call made from the deepest frame may or  *)
(* may not fit in the stack that is left.                                  *)
(***************************************************************************)
\* What a wallet or provider API does when probed: the attribute is absent,
\* the call raises, or it returns a number.
ProbeAnswers ==
    {[kind |-> "absent"], [kind |-> "raises"]}
    \cup {[kind |-> "value", val |-> v] : v \in {0 - 2, 0, 5}}

BalanceIdle ==
    [frames |-> <<>>, wallet |-> [kind |-> "absent"],
     provider |-> [kind |-> "absent"], result |-> None, probes |-> <<>>]

\* The value a probe function returns: -1.0 unless the API answered.
ProbeValue(answer, fits) ==
    IF answer.kind = "value" /\ fits THEN answer.val ELSE 0 - 1

\* Does a call made from the top frame fit below the recursion limit?
StackFits == IF Len(balance_stack.frames) >= RecursionLimit THEN BOOLEAN ELSE {TRUE}

TopFrame == balance_stack.frames[Len(balance_stack.frames)]
SetTop(frame_) ==
    [balance_stack.frames EXCEPT ![Len(balance_stack.frames)] = frame_]
AtProbe(pc) == balance_stack.frames # <<>> /\ TopFrame.pc = pc

\* client.get_balance() is called from outside the helper.
get_balance_safe(wallet, provider) ==
    /\ balance_stack.frames = <<>>
    /\ balance_stack' =
           [frames |-> <<[pc |-> "direct", val |-> 0]>>, wallet |-> wallet,
            provider |-> provider, result |-> None, probes |-> <<>>]
    /\ UNCHANGED <<limits_vars, last, config_vars, metrics_vars, limits_pc, exec_vars, monitor_vars>>
    /\ UNCHANGED <<exec_pc, metrics_pc, approvals, bot>>

\* lines 80 and 32-39: client.get_balance() enters get_balance_safe again,
\* or raises RecursionError, which line 37 turns into -1.0
get_balance_direct ==
    /\ AtProbe("direct")
    /\ balance_stack' =
           [balance_stack EXCEPT
               !.frames = IF Len(@) < RecursionLimit
                          THEN Append(@, [pc |-> "direct", val |-> 0])
                          ELSE SetTop([pc |-> "wallet", val |-> 0]),
               !.probes = Append(@, "direct")]
    /\ UNCHANGED <<limits_vars, last, config_vars, metrics_vars, limits_pc, exec_vars, monitor_vars>>
    /\ UNCHANGED <<exec_pc, metrics_pc, approvals, bot>>

\* lines 85-87 and 42-53
get_balance_wallet ==
    /\ AtProbe("wallet")
    /\ \E fits \in StackFits :
           LET val == ProbeValue(balance_stack.wallet, fits)
           IN  balance_stack' =
                   [balance_stack EXCEPT
                       !.frames = IF val >= 0
                                  THEN SetTop([pc |-> "return", val |-> val])
                                  ELSE SetTop([pc |-> "provider", val |-> 0]),
                       !.probes = Append(@, "wallet")]
    /\ UNCHANGED <<limits_vars, last, config_vars, metrics_vars, limits_pc, exec_vars, monitor_vars>>
    /\ UNCHANGED <<exec_pc, metrics_pc, approvals, bot>>

\* lines 90-92 and 56-71
get_balance_provider ==
    /\ AtProbe("provider")
    /\ \E fits \in StackFits :
           LET val == ProbeValue(balance_stack.provider, fits)
           IN  balance_stack' =
                   [balance_stack EXCEPT
                       !.frames = IF val >= 0
                                  THEN SetTop([pc |-> "return", val |-> val])
                                  ELSE SetTop([pc |-> "log", val |-> 0]),
                       !.probes = Append(@, "provider")]
    /\ UNCHANGED <<limits_vars, last, config_vars, metrics_vars, limits_pc, exec_vars, monitor_vars>>
    /\ UNCHANGED <<exec_pc, metrics_pc, approvals, bot>>

\* lines 95-98: log_error, then return 0.0.  A RecursionError raised inside
\* log_error leaves get_balance_safe and is caught by the direct probe of
\* the frame below (line 37), which goes on with its own wallet probe.
get_balance_default ==
    /\ AtProbe("log")
    /\ \E fits \in StackFits :
           balance_stack' =
               [balance_stack EXCEPT
                   !.frames =
                       IF fits \/ Len(@) = 1
                       THEN SetTop([pc |-> "return", val |-> 0])
                       ELSE [SubSeq(@, 1, Len(@) - 1)
                                EXCEPT ![Len(@) - 1] = [pc |-> "wallet", val |-> 0]]]
    /\ UNCHANGED <<limits_vars, last, config_vars, metrics_vars, limits_pc, exec_vars, monitor_vars>>
    /\ UNCHANGED <<exec_pc, metrics_pc, approvals, bot>>

\* get_balance_safe returns val >= 0: to the direct probe of the frame
\* below, which returns it in turn (lines 36 and 81-82), or to the caller.
get_balance_return ==
    /\ AtProbe("return")
    /\ LET n == Len(balance_stack.frames)
           val == TopFrame.val
       IN  balance_stack' =
               IF n = 1
               THEN [balance_stack EXCEPT !.frames = <<>>, !.result = Some(val)]
               ELSE [balance_stack EXCEPT
                        !.frames = [SubSeq(@, 1, n - 1)
                                       EXCEPT ![n - 1] = [pc |-> "return", val |-> val]]]
    /\ UNCHANGED <<limits_vars, last, config_vars, metrics_vars, limits_pc, exec_vars, monitor_vars>>
    /\ UNCHANGED <<exec_pc, metrics_pc, approvals, bot>>

(***************************************************************************)
(* CrowdFollowerStrategy (src/strategies/crowd_follower.py).  Prices and   *)
(* the vig are in hundredths; the comparisons of scan_for_edge are made on *)
(* the sum as the code computes it.                                        *)
(***************************************************************************)
\* config.py (dev)
MIN_THRESHOLD == 30
MAX_THRESHOLD == 90
MIN_VOLUME == 500
HIGH_VOLUME_THRESHOLD == 10000
VIG_TOLERANCE_TIGHT == <<98, 102>>
VIG_TOLERANCE_LOOSE == <<90, 110>>
MAX_BET_USD == 20

\* get_vig_tolerance (config.py lines 32-40)
get_vig_tolerance(volume) ==
    IF volume >= HIGH_VOLUME_THRESHOLD THEN VIG_TOLERANCE_TIGHT
    ELSE VIG_TOLERANCE_LOOSE

\* risk/position_sizing.fixed_sizing: the configured stake.
fixed_sizing == MAX_BET_USD

\* What get_token_prices returns (pricing.py lines 20-65): the two prices
\* with the two token ids, or 0.5 / 0.5 without token ids when the market
\* has no usable clobTokenIds (lines 28, 32).
ScanPrices == {10, 45, 50, 55, 90}
TokenPrices ==
    {[yes_price |-> y, no_price |-> n, yes_token |-> Some("ytoken"),
      no_token |-> Some("ntoken")] : y \in ScanPrices, n \in ScanPrices}
    \cup {[yes_price |-> 50, no_price |-> 50, yes_token |-> None, no_token |-> None]}
ScanVolumes == {10, 1000, 10000}

\* lines 60-64: the sides whose price is within the thresholds, yes first
InRange(price) == MIN_THRESHOLD <= price /\ price <= MAX_THRESHOLD
Candidates(tp) ==
    (IF InRange(tp.yes_price)
     THEN <<[side |-> "yes", price |-> tp.yes_price, token_id |-> tp.yes_token]>>
     ELSE <<>>) \o
    (IF InRange(tp.no_price)
     THEN <<[side |-> "no", price |-> tp.no_price, token_id |-> tp.no_token]>>
     ELSE <<>>)

\* Mutant: the sort key has no tie-break, so a tie keeps the listed order.
SortsBefore_NoTieBreak(a, b, preferred) == a.price > b.price

\* lines 71-73: the sort key (-price, 0 if side == PREFERRED_SIDE else 1)
SortsBefore(a, b, preferred) ==
    \/ a.price > b.price
    \/ /\ a.price = b.price
       /\ (IF a.side = preferred THEN 0 ELSE 1) < (IF b.side = preferred THEN 0 ELSE 1)

\* candidates.sort(...)[0]: the sort is stable
Strongest(candidates, preferred) ==
    IF Len(candidates) = 2 /\ SortsBefore(candidates[2], candidates[1], preferred)
    THEN candidates[2] ELSE candidates[1]

\* scan_for_edge (lines 34-87): the inputs with edge_msg and edge_details
ScanForEdge(tp, vol, preferred) ==
    LET vig == tp.yes_price + tp.no_price
        vig_tolerance == get_vig_tolerance(vol)
        candidates == Candidates(tp)
        best == Strongest(candidates, preferred)
        none == [op |-> "scan_for_edge", tp |-> tp, vol |-> vol,
                 preferred |-> preferred, vig |-> vig,
                 edge_msg |-> None, edge_details |-> None]
    IN  IF vol < MIN_VOLUME THEN none
        ELSE IF ~(vig_tolerance[1] <= vig /\ vig <= vig_tolerance[2]) THEN none
        ELSE IF candidates = <<>> THEN none
        ELSE [none EXCEPT
                 !.edge_msg = Some(<<"Buying", best.side, best.price, fixed_sizing>>),
                 !.edge_details = Some([side |-> best.side, price |-> best.price,
                                        token_id |-> best.token_id,
                                        amount |-> fixed_sizing])]

ScanIdle ==
    [op |-> "none",
     tp |-> [yes_price |-> 50, no_price |-> 50, yes_token |-> None, no_token |-> None],
     vol |-> 0, preferred |-> "yes", vig |-> 100,
     edge_msg |-> None, edge_details |-> None]

EdgeIdle == [op |-> "none", details |-> None, ret |-> FALSE, bought |-> FALSE]

\* "if not edge_details": None or an empty dict
Empty(details) == details.none \/ DOMAIN details.val = {}

\* execute_edge (lines 89-105) returns ret and leaves the executor's state
\* as execute_market_buy does; the result of execute_market_buy is dropped
\* (line 104) and line 105 returns True.
ExecuteEdge(details, market, bal, kinds, resp, ret) ==
    IF Empty(details) \/ details.val.token_id.none
    THEN /\ ret = FALSE
         /\ UNCHANGED exec_vars
    ELSE /\ ret = TRUE
         /\ IF DRY_RUN
            THEN DryRunBuy("client", details.val.amount, details.val.side,
                           market, Some(details.val.price))
            ELSE /\ exec_last' = LiveBuy("client", details.val.amount,
                                         details.val.side, bal, kinds, resp)
                 /\ UNCHANGED paper_positions

\* Did the call go as far as execute_market_buy?
Bought(details) == ~Empty(details) /\ ~details.val.token_id.none

\* What the client answers to an order placed by the strategy: the balance
\* is short or sufficient, every submission raises or the first returns.
EdgeBalances == {[kind |-> "usd", usd |-> 0], [kind |-> "usd", usd |-> 1]}
EdgeScripts ==
    {[i \in AttemptSlots |-> "post_raises"], [i \in AttemptSlots |-> "returns"]}
EdgeResponse == [kind |-> "dict", filled |-> None]

\* strategy.scan_for_edge(market) called on its own
scan_for_edge(tp, vol, preferred) ==
    /\ bot' = [bot EXCEPT !.scan = ScanForEdge(tp, vol, preferred)]
    /\ UNCHANGED exec_vars
    /\ UNCHANGED <<limits_vars, last, config_vars, metrics_vars, limits_pc, monitor_vars>>
    /\ UNCHANGED <<exec_pc, metrics_pc, approvals, balance_stack>>

\* strategy.execute_edge(edge_details, market) called on its own
execute_edge(details, market, bal, kinds, resp) ==
    /\ \E ret \in BOOLEAN :
           /\ ExecuteEdge(details, market, bal, kinds, resp, ret)
           /\ bot' = [bot EXCEPT !.edge =
                  [op |-> "execute_edge", details |-> details, ret |-> ret,
                   bought |-> Bought(details)]]
    /\ UNCHANGED <<limits_vars, last, config_vars, metrics_vars, limits_pc, monitor_vars>>
    /\ UNCHANGED <<exec_pc, metrics_pc, approvals, balance_stack>>

(***************************************************************************)
(* The polling loop (src/main.py): _run_trading_loop (lines 141-168) and   *)
(* _process_market_cycle (lines 30-87).  bot.pc is the loop's position,    *)
(* bot.now the 15-minute slot the clock is in.  The market of a slot is    *)
(* identified by the slot: fetch_current_15min_btc_market asks for the     *)
(* slug "btc-updown-15m-<slot>" (markets.py lines 46-48).  bot.executed    *)
(* counts the calls of execute_edge per market, up to two; bot.failures    *)
(* collects what went wrong in the current tick.                           *)
(***************************************************************************)
Slots == 1 .. MaxSlots
SlotOf(market_id) == market_id
PREFERRED_SIDE == "yes"

\* strategies.crowd_follower.is_price_acceptable(price): the answers
is_price_acceptable(price) == BOOLEAN

\* What the loop's markets quote: an edge on "yes", an edge without token
\* ids, no edge.
LoopTokenPrices ==
    {tp \in TokenPrices :
        \/ tp.yes_token = None
        \/ <<tp.yes_price, tp.no_price>> \in {<<55, 45>>, <<10, 10>>}}
LoopVolume == 10000

LoopInit ==
    [pc |-> "fetch", now |-> 1, market |-> None,
     current_slot_unix |-> None, last_traded_market_id |-> None,
     executed |-> [m \in Slots |-> 0], failures |-> {}]

BotInit == [scan |-> ScanIdle, edge |-> EdgeIdle, loop |-> LoopInit]

\* What went wrong in the execute_market_buy call recorded in r.
ExecFailures(r) ==
    IF r.ret # "False" THEN {}
    ELSE {k \in {"wallet_balance_check_failed", "invalid_amount", "trade_failed"} :
             \E i \in DOMAIN r.reported : r.reported[i] = k}

\* Mutant: an exception raised by the request leaves the loop.
loop_fetch_Raises ==
    /\ bot.loop.pc = "fetch"
    /\ \E answer \in {"market", "empty", "raises"} :
          bot' = [bot EXCEPT !.loop =
              IF answer = "market"
              THEN [@ EXCEPT !.market = Some([id |-> bot.loop.now, slot |-> bot.loop.now]),
                             !.pc = "cycle"]
              ELSE IF answer = "empty"
              THEN [@ EXCEPT !.market = None, !.current_slot_unix = None,
                             !.failures = {"no_market"}, !.pc = "sleep"]
              ELSE [@ EXCEPT !.market = None,
                             !.failures = {"fetch_failed"}, !.pc = "stopped"]]
    /\ UNCHANGED <<exec_vars, monitor_vars>>
    /\ UNCHANGED <<limits_vars, last, config_vars, metrics_vars, limits_pc>>
    /\ UNCHANGED <<exec_pc, metrics_pc, approvals, balance_stack>>

\* main.py lines 145, 159-166 with markets.py lines 46-72: the request
\* returns the market of the current slot, returns an empty list, or raises;
\* in the last two cases fetch returns None, the empty display is drawn and
\* current_slot_unix is cleared.
loop_fetch ==
    /\ bot.loop.pc = "fetch"
    /\ \E answer \in {"market", "empty", "raises"} :
          bot' = [bot EXCEPT !.loop =
              IF answer = "market"
              THEN [@ EXCEPT !.market = Some([id |-> bot.loop.now, slot |-> bot.loop.now]),
                             !.pc = "cycle"]
              ELSE [@ EXCEPT !.market = None, !.current_slot_unix = None,
                             !.failures = {IF answer = "empty" THEN "no_market"
                                           ELSE "fetch_failed"},
                             !.pc = "sleep"]]
    /\ UNCHANGED <<exec_vars, monitor_vars>>
    /\ UNCHANGED <<limits_vars, last, config_vars, metrics_vars, limits_pc>>
    /\ UNCHANGED <<exec_pc, metrics_pc, approvals, balance_stack>>

\* _process_market_cycle lines 34-58: the ledger's prices are refreshed
\* (a market without open position is a miss) and the slot is read from the
\* slug; a slot other than current_slot_unix resets the trade tracker.
loop_detect_slot ==
    /\ bot.loop.pc = "cycle"
    /\ lock = "free"
    /\ LET market == bot.loop.market.val
           market_id == market.id
           new_slot == Some(market.slot)
           miss == market_id \notin DOMAIN positions
       IN  /\ \E y \in MonitorPrices :
                 LET feed == [id |-> market_id, yes |-> y, no |-> 5 - y]
                 IN  positions' =
                        IF miss THEN positions
                        ELSE With(positions, market_id,
                                 [positions[market_id] EXCEPT !.current_price =
                                     feed[positions[market_id].side]])
           /\ bot' = [bot EXCEPT !.loop =
                  [@ EXCEPT
                     !.failures = @ \cup (IF miss THEN {"lookup_miss"} ELSE {}),
                     !.last_traded_market_id =
                         IF new_slot # bot.loop.current_slot_unix THEN None ELSE @,
                     !.current_slot_unix = new_slot,
                     !.pc = "trade"]]
    /\ UNCHANGED <<closed_positions, lock, frame, exec_vars>>
    /\ UNCHANGED <<limits_vars, last, config_vars, metrics_vars, limits_pc>>
    /\ UNCHANGED <<exec_pc, metrics_pc, approvals, balance_stack>>

\* _process_market_cycle lines 66-87: a market other than the one traded
\* last is scanned; an edge at an acceptable price is executed and the
\* market recorded as traded, whatever execute_edge returns (lines 74-75).
loop_trade ==
    /\ bot.loop.pc = "trade"
    /\ LET market_id == bot.loop.market.val.id
       IN  IF Some(market_id) = bot.loop.last_traded_market_id
           THEN /\ bot' = [bot EXCEPT !.loop.pc = "sleep"]
                /\ UNCHANGED exec_vars
           ELSE \E tp \in LoopTokenPrices :
                  LET scan == ScanForEdge(tp, LoopVolume, PREFERRED_SIDE)
                      edge_details == scan.edge_details
                  IN  \E acceptable \in is_price_acceptable(edge_details) :
                        IF Empty(edge_details) \/ ~acceptable
                        THEN /\ bot' = [bot EXCEPT !.scan = scan, !.loop.pc = "sleep"]
                             /\ UNCHANGED exec_vars
                        ELSE \E bal \in EdgeBalances, kinds \in EdgeScripts,
                               ret \in BOOLEAN :
                               /\ ExecuteEdge(edge_details, Some([question |-> "Q1"]),
                                              bal, kinds, EdgeResponse, ret)
                               /\ bot' = [bot EXCEPT
                                      !.scan = scan,
                                      !.edge = [op |-> "execute_edge",
                                                details |-> edge_details,
                                                ret |-> ret,
                                                bought |-> Bought(edge_details)],
                                      !.loop = [@ EXCEPT
                                          !.last_traded_market_id = Some(market_id),
                                          !.executed[market_id] =
                                              IF @ < 2 THEN @ + 1 ELSE @,
                                          !.failures = @ \cup
                                              (IF Bought(edge_details)
                                               THEN ExecFailures(exec_last')
                                               ELSE {"missing_token"}),
                                          !.pc = "sleep"]]
    /\ UNCHANGED monitor_vars
    /\ UNCHANGED <<limits_vars, last, config_vars, metrics_vars, limits_pc>>
    /\ UNCHANGED <<exec_pc, metrics_pc, approvals, balance_stack>>

\* main.py line 168: time.sleep(SCAN_INTERVAL); the clock may pass into the
\* next slot.
loop_sleep ==
    /\ bot.loop.pc = "sleep"
    /\ \E next \in {bot.loop.now,
                     IF bot.loop.now < MaxSlots THEN bot.loop.now + 1
                     ELSE bot.loop.now} :
          bot' = [bot EXCEPT !.loop =
              [@ EXCEPT !.now = next, !.market = None, !.failures = {},
                        !.pc = "fetch"]]
    /\ UNCHANGED <<exec_vars, monitor_vars>>
    /\ UNCHANGED <<limits_vars, last, config_vars, metrics_vars, limits_pc>>
    /\ UNCHANGED <<exec_pc, metrics_pc, approvals, balance_stack>>

\* State of the step-level parts before any call.
RuntimeInit ==
    /\ exec_pc = ExecPcIdle
    /\ metrics_pc = [t \in Threads |-> MetricsPcIdle]
    /\ approvals = [c \in Callers |-> CallerIdle]
    /\ bot = BotInit
    /\ balance_stack = BalanceIdle

\* The process as deployed by default (dev): limits are exercised on their own.
Init ==
    /\ PositionLimitsInit
    /\ last = Call("init", 0, 0, "None", <<>>, <<>>)
    /\ DRY_RUN = TRUE
    /\ WALLET_MIN_BALANCE_USD = 1
    /\ ExecInit
    /\ MonitorInit
    /\ MetricsInit
    /\ RuntimeInit

Pnls == {None, Some(0 - 1), Some(2)}

Next ==
    \/ \E m \in Markets, a \in Amounts : can_trade(m, a)
    \/ \E m \in Markets, a \in Amounts : add_position(m, a)
    \/ \E m \in Markets, p \in Pnls : close_position(m, p)
    \/ reset_daily_counters
    \/ get_status

Spec == Init /\ [][Next]_vars

\* The single-writer discipline of the polling loop: add_position(m, a) only
\* immediately after can_trade(m, a) returned True.
Approved(market_id, amount_usd) ==
    /\ last.op = "can_trade"
    /\ last.ret = "True"
    /\ last.market = market_id
    /\ last.amount = amount_usd

PositiveAmounts == {a \in Amounts : a > 0}

NextSingleWriter ==
    \/ \E m \in Markets, a \in Amounts : can_trade(m, a)
    \/ \E m \in Markets, a \in PositiveAmounts :
           Approved(m, a) /\ add_position(m, a)
    \/ \E m \in Markets, p \in Pnls : close_position(m, p)
    \/ reset_daily_counters
    \/ get_status

SpecSingleWriter == Init /\ [][NextSingleWriter]_vars

\* The order executor, in either mode and with any accepted minimum balance.
InitExec ==
    /\ PositionLimitsInit
    /\ last = Call("init", 0, 0, "None", <<>>, <<>>)
    /\ DRY_RUN \in BOOLEAN
    /\ WALLET_MIN_BALANCE_USD \in {0, 1}
    /\ ExecInit
    /\ MonitorInit
    /\ MetricsInit
    /\ RuntimeInit

\* Inputs a path never reads are not enumerated: the live path ignores
\* market and price, the simulated path never consults the client.
NextExec ==
    \E client \in Clients, a \in ExecAmounts, side \in Sides :
      \E market \in (IF DRY_RUN THEN MarketContexts ELSE {None}),
         price \in (IF DRY_RUN THEN Prices ELSE {None}),
         bal \in (IF DRY_RUN THEN {[kind |-> "raises"]} ELSE Balances),
         kinds \in (IF DRY_RUN THEN {[i \in AttemptSlots |-> "returns"]}
                    ELSE AttemptScripts),
         resp \in (IF DRY_RUN THEN {[kind |-> "none"]} ELSE Responses) :
        execute_market_buy(client, a, side, market, price, bal, kinds, resp)

SpecExec == InitExec /\ [][NextExec]_vars

\* The position ledger called from two threads; closes are explored while
\* the history is shorter than MaxClosed.
NextMonitor ==
    \E t \in Threads :
        \/ \E m \in MonitorMarkets, side \in Sides, shares \in MonitorShares,
              p \in MonitorPrices : open_position_enter(t, m, side, shares, p)
        \/ open_position_body(t)
        \/ \E m \in MonitorMarkets, p \in MonitorPrices :
               update_position_price_enter(t, m, p)
        \/ update_position_price_body(t)
        \/ \E m \in MonitorMarkets, p \in MonitorPrices :
               /\ Len(closed_positions) < MaxClosed
               /\ Monitor_close_position_enter(t, m, p)
        \/ Monitor_close_position_pop(t)
        \/ Monitor_close_position_append(t)
        \/ get_all_positions_enter(t)
        \/ get_all_positions_body(t)
        \/ \E market \in MarketFeeds : update_prices_from_market_enter(t, market)
        \/ update_prices_from_market_body(t)
        \/ get_summary_enter(t)
        \/ get_summary_body(t)
        \/ Monitor_return(t)

SpecMonitor == Init /\ [][NextMonitor]_vars

\* The position ledger over a long run: one market is opened as yes at the
\* same entry, repriced and closed again and again from either thread, so
\* that the closed history outgrows the window of get_summary.
NextHistory ==
    \E t \in Threads :
        \/ open_position_enter(t, 1, "yes", 10, 2)
        \/ open_position_body(t)
        \/ update_position_price_enter(t, 1, 3)
        \/ update_position_price_body(t)
        \/ \E p \in MonitorPrices :
               /\ Len(closed_positions) < MaxHistory
               /\ Monitor_close_position_enter(t, 1, p)
        \/ Monitor_close_position_pop(t)
        \/ Monitor_close_position_append(t)
        \/ get_summary_enter(t)
        \/ get_summary_body(t)
        \/ Monitor_return(t)

SpecHistory == Init /\ [][NextHistory]_vars

\* TradeMetrics driven by the polling loop.
NextMetrics ==
    \/ \E dry \in BOOLEAN : record_trade(1, "yes", 20, 80, dry)
    \/ \E p \in MetricPnls : record_pnl(1, p)
    \/ get_statistics
    \/ reset_daily_stats
    \/ print_summary

SpecMetrics == Init /\ [][NextMetrics]_vars

\* The polling loop trading while losses accumulate in TradeMetrics.
NextAdvisory ==
    \/ record_pnl(1, 0 - 5)
    \/ \E m \in Markets, a \in Amounts : can_trade(m, a)
    \/ \E m \in Markets, a \in PositiveAmounts :
           Approved(m, a) /\ add_position(m, a)
    \/ execute_market_buy("None", 20, "yes", Some([question |-> "Q1"]), Some(80),
                          [kind |-> "raises"], [i \in AttemptSlots |-> "returns"],
                          [kind |-> "none"])

SpecAdvisory == Init /\ [][NextAdvisory]_vars

\* The polling loop inside add_position / close_position, statement by
\* statement, and a second thread reading the limits.
NextLimitsThreads ==
    \/ \E m \in Markets, a \in ConcurrentAmounts : add_position_init(m, a)
    \/ add_position_amount
    \/ add_position_total
    \/ add_position_count
    \/ \E m \in Markets : close_position_pop(m, None)
    \/ close_position_total
    \/ get_status
    \/ \E m \in Markets, a \in ConcurrentAmounts : can_trade(m, a)

SpecLimitsThreads == Init /\ [][NextLimitsThreads]_vars

\* Live mode with any accepted minimum balance.
InitLive ==
    /\ PositionLimitsInit
    /\ last = Call("init", 0, 0, "None", <<>>, <<>>)
    /\ DRY_RUN = FALSE
    /\ WALLET_MIN_BALANCE_USD \in {0, 1}
    /\ ExecInit
    /\ MonitorInit
    /\ MetricsInit
    /\ RuntimeInit

\* The client's answers in the runs with a reader: the balance call raises
\* or returns enough, a submission raises a transport error or returns.
ThreadBalances == {[kind |-> "raises"], [kind |-> "usd", usd |-> 1]}
ThreadScripts ==
    {kinds \in AttemptScripts :
        \A i \in AttemptSlots : kinds[i] \in {"post_raises", "returns"}}

\* The polling loop ("main") updates the ledger and places live orders one
\* call at a time while the display thread reads the ledger.
NextExecThreads ==
    \/ \E bal \in ThreadBalances, kinds \in ThreadScripts :
           execute_market_buy_begin("main", "client", 20, "yes", bal, kinds,
                                    [kind |-> "dict", filled |-> None])
    \/ execute_market_buy_step
    \/ execute_market_buy_end
    \/ exec_pc.pc = "idle" /\ open_position_enter("main", 1, "yes", 10, 2)
    \/ open_position_body("main")
    \/ exec_pc.pc = "idle"
          /\ update_prices_from_market_enter("main", [id |-> 1, yes |-> 3, no |-> 2])
    \/ update_prices_from_market_body("main")
    \/ get_all_positions_enter("display")
    \/ get_all_positions_body("display")
    \/ get_summary_enter("display")
    \/ get_summary_body("display")
    \/ \E t \in Threads : Monitor_return(t)

SpecExecThreads == InitLive /\ [][NextExecThreads]_vars

\* TradeMetrics called from two threads: losses of one quantum are recorded
\* statement by statement while statistics are read.
NextMetricsThreads ==
    \/ record_trade(1, "yes", 20, 80, TRUE)
    \/ get_statistics
    \/ \E t \in Threads :
           \/ \E p \in {0 - 1, 1} : record_pnl_enter(t, p)
           \/ record_pnl_load_loss(t)
           \/ record_pnl_store_loss(t)
           \/ record_pnl_load_streak(t)
           \/ record_pnl_store_streak(t)
           \/ record_pnl_alerts(t)
           \/ record_pnl_win(t)

SpecMetricsThreads == Init /\ [][NextMetricsThreads]_vars

\* The attached balance helper called again and again.
NextBalance ==
    \/ \E w \in ProbeAnswers, p \in ProbeAnswers : get_balance_safe(w, p)
    \/ get_balance_direct
    \/ get_balance_wallet
    \/ get_balance_provider
    \/ get_balance_default
    \/ get_balance_return

SpecBalance == Init /\ [][NextBalance]_vars

\* The strategy's two methods called on their own, as its tests do, with
\* live trading configured.
NextStrategy ==
    \/ \E tp \in TokenPrices, vol \in ScanVolumes, preferred \in Sides :
           scan_for_edge(tp, vol, preferred)
    \/ \E details \in {None, Some(<<>>), bot.scan.edge_details},
          bal \in EdgeBalances, kinds \in EdgeScripts :
           execute_edge(details, Some([question |-> "Q1"]), bal, kinds, EdgeResponse)

SpecStrategy == InitLive /\ [][NextStrategy]_vars

\* The polling loop on its own thread, with live trading configured.
NextLoop ==
    \/ loop_fetch
    \/ loop_detect_slot
    \/ loop_trade
    \/ loop_sleep

SpecLoop == InitLive /\ [][NextLoop]_vars

\* Every call the loop makes returns: the request, the exchange calls and
\* their backoff, and the sleep all end.
SpecLoopFair == SpecLoop /\ WF_vars(NextLoop)

\* Two order-placing callers, each approved by can_trade before it records.
NextCallers ==
    \E c \in Callers :
        \/ \E m \in Markets, a \in PositiveAmounts : caller_can_trade(c, m, a)
        \/ caller_add_position(c)

SpecCallers == Init /\ [][NextCallers]_vars

(***************************************************************************)
(* Properties of PositionLimits                                            *)
(***************************************************************************)
OpenCount == Cardinality(DOMAIN active_positions)

\* The sums a float accumulation of the open amounts can give, over every
\* order of summation.
RECURSIVE FloatSums(_, _)
FloatSums(f, S) ==
    IF S = {} THEN {0}
    ELSE UNION {{Fl(s + f[m]) : s \in FloatSums(f, S \ {m})} : m \in S}

\* C1: after any sequence of add_position, close_position and
\* reset_daily_counters calls, total_exposure_usd equals the sum of the amounts
\* stored in active_positions (0 when no market is open).  The sum is taken in
\* float arithmetic, in whichever order of summation agrees.
C1_ExposureEqualsSum ==
    total_exposure_usd \in FloatSums(active_positions, DOMAIN active_positions)

\* C2: under the single-writer discipline (add_position(m, a), a > 0, only
\* right after can_trade(m, a) returned True) the number of open markets, the
\* total exposure and the daily trade count never exceed their ceilings.
C2_CeilingsHold ==
    /\ OpenCount <= MAX_CONCURRENT_POSITIONS
    /\ 10 * total_exposure_usd <= 8 * MAX_CONCURRENT_POSITIONS * MAX_POSITION_USD
    /\ daily_trade_count <= MAX_DAILY_TRADES

C2_Witness ==
    /\ last.op = "add_position"
    /\ OpenCount = MAX_CONCURRENT_POSITIONS
    /\ daily_trade_count = MAX_DAILY_TRADES
    /\ total_exposure_usd > MAX_POSITION_USD

\* C3: can_trade returns False whenever amount > MAX_POSITION_USD, in every
\* state; an amount equal to MAX_POSITION_USD is never rejected by the size
\* check, and is allowed from the empty state.
C3_SizeCheck ==
    [][last'.op = "can_trade" =>
        /\ (last'.amount > MAX_POSITION_USD => last'.ret = "False")
        /\ (last'.amount = MAX_POSITION_USD =>
               /\ last'.reported # <<"position_size">>
               /\ (active_positions = <<>> /\ total_exposure_usd = 0
                   /\ daily_trade_count = 0 => last'.ret = "True"))]_vars

C3_Witness ==
    /\ last.op = "can_trade"
    /\ last.amount = MAX_POSITION_USD + 1
    /\ last.reported = <<"position_size">>
    /\ OpenCount > 0

\* C4: with MAX_CONCURRENT_POSITIONS markets open, can_trade for a market not
\* among them returns False; for a market already open the count check does
\* not apply, so the call is decided by the other three checks alone.
C4_ConcurrentCheck ==
    [][(last'.op = "can_trade" /\ OpenCount >= MAX_CONCURRENT_POSITIONS) =>
        IF last'.market \notin DOMAIN active_positions
        THEN last'.ret = "False"
        ELSE /\ last'.reported # <<"concurrent_positions">>
             /\ last'.ret = "True" <=>
                    /\ daily_trade_count < MAX_DAILY_TRADES
                    /\ last'.amount <= MAX_POSITION_USD
                    /\ 10 * Fl(total_exposure_usd + last'.amount) <=
                           8 * MAX_CONCURRENT_POSITIONS * MAX_POSITION_USD]_vars

C4_Witness ==
    /\ last.op = "can_trade"
    /\ OpenCount = MAX_CONCURRENT_POSITIONS
    /\ last.market \in DOMAIN active_positions
    /\ last.ret = "True"

C6_CanTradePure ==
    [][last'.op = "can_trade" =>
        /\ active_positions' = active_positions
        /\ total_exposure_usd' = total_exposure_usd
        /\ daily_trade_count' = daily_trade_count]_vars

C6_Witness ==
    /\ last.op = "can_trade"
    /\ last.ret = "True"
    /\ OpenCount > 0
    /\ daily_trade_count > 0

\* C7: add_position enforces no limit: in every state it adds the amount to
\* the market's notional (from 0 if the market was absent), adds it to
\* total_exposure_usd, increments daily_trade_count by one and leaves the
\* other markets' notionals unchanged.
C7_AddPosition ==
    [][last'.op = "add_position" =>
        LET m == last'.market
            a == last'.amount
            old == IF m \in DOMAIN active_positions THEN active_positions[m] ELSE 0
        IN  /\ DOMAIN active_positions' = DOMAIN active_positions \cup {m}
            /\ active_positions'[m] = Fl(old + a)
            /\ \A o \in DOMAIN active_positions \ {m} :
                   active_positions'[o] = active_positions[o]
            /\ total_exposure_usd' = Fl(total_exposure_usd + a)
            /\ daily_trade_count' = daily_trade_count + 1]_vars

\* a position added although every ceiling is exceeded
C7_Witness ==
    /\ last.op = "add_position"
    /\ last.amount > MAX_POSITION_USD
    /\ active_positions[last.market] > last.amount
    /\ OpenCount > MAX_CONCURRENT_POSITIONS
    /\ daily_trade_count > MAX_DAILY_TRADES
    /\ 10 * total_exposure_usd > 8 * MAX_CONCURRENT_POSITIONS * MAX_POSITION_USD

\* C8: close_position on a tracked market removes its entry and subtracts its
\* whole notional from total_exposure_usd; on an untracked market it is a
\* no-op without error; daily_trade_count and the other markets' notionals
\* are unchanged in both cases.
C8_ClosePosition ==
    [][last'.op = "close_position" =>
        LET m == last'.market
        IN  /\ last'.ret = "None"
            /\ IF m \in DOMAIN active_positions
               THEN /\ DOMAIN active_positions' = DOMAIN active_positions \ {m}
                    /\ total_exposure_usd' =
                           Fl(total_exposure_usd - active_positions[m])
               ELSE /\ active_positions' = active_positions
                    /\ total_exposure_usd' = total_exposure_usd
            /\ \A o \in DOMAIN active_positions \ {m} :
                   active_positions'[o] = active_positions[o]
            /\ daily_trade_count' = daily_trade_count]_vars

\* a tracked market closed while another stays open
C8_Witness ==
    /\ last.op = "close_position"
    /\ last.info = <<"Position closed">>
    /\ OpenCount > 0
    /\ total_exposure_usd > 0
    /\ daily_trade_count > 0

(***************************************************************************)
(* Properties of execute_market_buy in simulated mode                      *)
(***************************************************************************)
\* The call can record a paper position: it has a market context and a
\* reference price other than zero.
Recordable(call) ==
    /\ ~call.market.none
    /\ ~call.price.none
    /\ call.price.val # 0

\* C9: in simulated mode execute_market_buy returns success for every input
\* (any client, any market context, any reference price including an absent
\* one or zero), never raises and never calls the client.
C9_DryRunAlwaysSucceeds ==
    (DRY_RUN /\ exec_last.op = "execute_market_buy") =>
        /\ exec_last.ret = "True"
        /\ exec_last.exc = "None"
        /\ exec_last.calls = <<>>

\* C10 as stated: in simulated mode every execute_market_buy call adds exactly
\* one entry to the ledger of simulated positions.  It is stated for the calls
\* that return, so that a violation does not rest on the exception of C9.
C10_AlwaysOneEntry ==
    [][(DRY_RUN /\ exec_last'.op = "execute_market_buy"
              /\ exec_last'.ret = "True") =>
        Len(paper_positions') = Len(paper_positions) + 1]_vars

\* C10 as amended: in simulated mode a call that has a market context and a
\* non-zero reference price adds exactly one entry, also with a null client;
\* a call without market context, or with an absent or zero price, adds none.
\* Earlier entries are kept either way.
C10_OneEntryWhenRecordable ==
    [][(DRY_RUN /\ exec_last'.op = "execute_market_buy") =>
        /\ Len(paper_positions') =
               Len(paper_positions) + (IF Recordable(exec_last') THEN 1 ELSE 0)
        /\ SubSeq(paper_positions', 1, Len(paper_positions)) = paper_positions]_vars

\* a paper position recorded by a call with a null client
C10_Witness ==
    /\ DRY_RUN
    /\ exec_last.op = "execute_market_buy"
    /\ exec_last.client = "None"
    /\ Recordable(exec_last)
    /\ Len(paper_positions) >= 1
    /\ paper_positions[Len(paper_positions)].side = exec_last.side
    /\ paper_positions[Len(paper_positions)].current_value = exec_last.amount

(***************************************************************************)
(* Properties of the live path of execute_market_buy                       *)
(***************************************************************************)

\* The call just made was a live execute_market_buy.
LiveCall == ~DRY_RUN /\ exec_last.op = "execute_market_buy"

FailedAttempt(outcome) == outcome # "returns"

Count(seq, x) == Cardinality({i \in 1 .. Len(seq) : seq[i] = x})

\* C11: in live mode one execute_market_buy makes at most MAX_ATTEMPTS (3)
\* submission attempts and stops at the first one that returns: every
\* attempt before the last one failed, and fewer than 3 attempts were made
\* only when the last one returned.  Fail, fail, then a response returns
\* success after exactly 3 attempts; three failures return failure, never
\* start a fourth attempt, and create no position.
C11_BoundedRetries ==
    [][(~DRY_RUN /\ exec_last'.op = "execute_market_buy") =>
        LET c == exec_last'
            out == c.outcomes
            n == Len(out)
        IN  /\ n <= MAX_ATTEMPTS
            /\ c.attempts = n
            /\ Count(c.calls, "create_market_buy") <= MAX_ATTEMPTS
            /\ Count(c.calls, "post_order") <= MAX_ATTEMPTS
            /\ \A i \in 1 .. n - 1 : FailedAttempt(out[i])
            /\ (0 < n /\ n < MAX_ATTEMPTS) => out[n] = "returns"
            /\ (n = 3 /\ out[3] = "returns" /\ c.response.kind = "dict")
                   => c.ret = "True"
            /\ (n = 3 /\ FailedAttempt(out[3]))
                   => /\ c.ret = "False"
                      /\ UNCHANGED <<paper_positions, limits_vars>>]_vars

C11_Witness ==
    /\ LiveCall
    /\ exec_last.outcomes = <<"post_raises", "create_raises", "returns">>
    /\ exec_last.attempts = 3
    /\ exec_last.ret = "True"

\* C12: in live mode a submission that the exchange rejects is not retried:
\* the call makes exactly one attempt and returns failure.
C12_RejectionNotRetried ==
    (LiveCall /\ \E i \in 1 .. Len(exec_last.outcomes) :
                     exec_last.outcomes[i] = "post_rejects")
        => (exec_last.attempts = 1 /\ exec_last.ret = "False")

\* C13: in live mode a wallet balance below the minimum, or an amount that
\* is not positive, returns failure with no submission attempt: neither
\* create_market_buy nor post_order is called.  The balance is checked
\* first: a low balance is what is reported even when the amount is
\* non-positive too, and an invalid amount is reported only after the
\* balance was queried and found sufficient.
C13_RefusedBeforeSubmission ==
    (LiveCall /\ (exec_last.balance < WALLET_MIN_BALANCE_USD
                    \/ exec_last.amount <= 0))
        => LET c == exec_last
               verdict == c.reported[Len(c.reported)]
           IN  /\ c.ret = "False"
               /\ c.attempts = 0
               /\ c.outcomes = <<>>
               /\ Count(c.calls, "create_market_buy") = 0
               /\ Count(c.calls, "post_order") = 0
               /\ c.reported # <<>>
               /\ IF c.balance < WALLET_MIN_BALANCE_USD
                  THEN verdict = "wallet_balance_check_failed"
                  ELSE /\ verdict = "invalid_amount"
                       /\ c.client # "None" => c.calls = <<"get_balance">>

C13_Witness ==
    /\ LiveCall
    /\ exec_last.balance < WALLET_MIN_BALANCE_USD
    /\ exec_last.amount <= 0
    /\ exec_last.ret = "False"
    /\ exec_last.calls = <<"get_balance">>

\* C14: in live mode, when the balance query fails the balance counts as
\* zero and the call fails closed, whatever accepted minimum balance is
\* configured: it returns failure and submits no order.
C14_FailsClosed ==
    (LiveCall /\ Count(exec_last.reported, "balance_check_failed") > 0)
        => /\ exec_last.balance = 0
           /\ exec_last.ret = "False"
           /\ exec_last.attempts = 0
           /\ Count(exec_last.calls, "post_order") = 0

\* C15: in live mode a response whose filled amount is below 95% of the
\* requested amount is flagged as a partial fill and the call still returns
\* success, the success record carrying the filled amount; a fill of exactly
\* 95% or more, or a response without a filled amount (taken as fully
\* filled), is not flagged.
C15_PartialFill ==
    (LiveCall /\ exec_last.response.kind = "dict")
        => LET c == exec_last
               filled == IF c.response.filled.none THEN c.amount
                         ELSE c.response.filled.val
           IN  /\ c.ret = "True"
               /\ c.trade_log = <<"SUCCESS", filled>>
               /\ (Count(c.reported, "partial_fill") = 1)
                      <=> (100 * filled < 95 * c.amount)
               /\ Count(c.reported, "partial_fill") <= 1

C15_Witness ==
    /\ LiveCall
    /\ exec_last.ret = "True"
    /\ Count(exec_last.reported, "partial_fill") = 1
    /\ exec_last.trade_log = <<"SUCCESS", 18>>
    /\ exec_last.amount = 20

\* C16: in live mode no exception leaves execute_market_buy, whatever the
\* balance query, create_market_buy and post_order do on any attempt: the
\* call returns True or False, and the paper portfolio and the position
\* limits are as they were.
C16_NoExceptionEscapes ==
    [][(~DRY_RUN /\ exec_last'.op = "execute_market_buy") =>
        /\ exec_last'.ret \in {"True", "False"}
        /\ exec_last'.exc = "None"
        /\ UNCHANGED <<paper_positions, limits_vars>>]_vars

C16_Witness ==
    /\ LiveCall
    /\ exec_last.response.kind = "none"
    /\ exec_last.ret = "False"
    /\ exec_last.exc = "None"

(***************************************************************************)
(* Properties of PositionMonitor                                           *)
(***************************************************************************)

\* Thread t executes the body of op in this step.
BodyStep(t, op) == AtBody(t, op) /\ frame'[t].pc # "locked"

\* Thread t appends the closed record in this step.
AppendStep(t) == frame[t].pc = "popped" /\ frame'[t].pc = "done"

LedgerUnchanged == UNCHANGED <<positions, closed_positions>>

\* C17: update_position_price and update_prices_from_market for a market
\* with no open position change nothing: no entry is created, the open
\* positions and the closed history stay as they were (and
\* update_position_price returns the empty dict).  Market data rejected by
\* the first check of update_prices_from_market changes nothing either.
C17_UpdateWithoutPosition ==
    [][\A t \in Threads :
        /\ (BodyStep(t, "update_position_price")
              /\ frame[t].args.market_id \notin DOMAIN positions)
               => /\ LedgerUnchanged
                  /\ ~frame'[t].ret.none
                  /\ DOMAIN frame'[t].ret.val = {}
        /\ (BodyStep(t, "update_prices_from_market")
              /\ frame[t].args.market.id \notin DOMAIN positions)
               => LedgerUnchanged
        /\ (frame[t].pc = "idle" /\ frame'[t].op = "update_prices_from_market")
               => LedgerUnchanged]_vars

C17_Witness ==
    \E t \in Threads :
        /\ frame[t].pc = "done"
        /\ frame[t].op = "update_position_price"
        /\ frame[t].args.market_id \notin DOMAIN positions
        /\ DOMAIN positions # {}
        /\ DOMAIN frame[t].ret.val = {}

\* The P&L of a position at a price, as the ledger documents it.
SidePnl(side, entry_price, price, shares) ==
    IF side = "yes" THEN (price - entry_price) * shares
    ELSE 0 - (price - entry_price) * shares

\* C18: the unrealized P&L update_position_price returns for price p and
\* the realized P&L close_position records for exit price p are both
\* (p - entry_price) * shares for a yes position and its exact negative,
\* (entry_price - p) * shares, for a no position; entry 2, price 3 and 10
\* shares (0.40, 0.60 in quanta of 0.20) give +10 for yes and -10 for no.
C18_PnlFormula ==
    [][\A t \in Threads :
        /\ (BodyStep(t, "update_position_price")
              /\ frame[t].args.market_id \in DOMAIN positions)
               => LET pos == positions[frame[t].args.market_id]
                      p == frame[t].args.current_price
                      pnl == frame'[t].ret.val.unrealized_pnl
                  IN  /\ pnl = SidePnl(pos.side, pos.entry_price, p, pos.shares)
                      /\ (pos.entry_price = 2 /\ p = 3 /\ pos.shares = 10)
                             => pnl = IF pos.side = "yes" THEN 10 ELSE 0 - 10
        /\ AppendStep(t)
               => LET pos == frame[t].pos.val
                      p == frame[t].args.exit_price
                      pnl == frame'[t].ret.val.realized_pnl
                  IN  /\ pnl = SidePnl(pos.side, pos.entry_price, p, pos.shares)
                      /\ (pos.entry_price = 2 /\ p = 3 /\ pos.shares = 10)
                             => pnl = IF pos.side = "yes" THEN 10 ELSE 0 - 10]_vars

C18_Witness ==
    \E t \in Threads :
        /\ frame[t].pc = "done"
        /\ frame[t].op = "close_position"
        /\ ~frame[t].ret.none
        /\ frame[t].ret.val.side = "no"
        /\ frame[t].ret.val.entry_price = 2
        /\ frame[t].ret.val.exit_price = 3
        /\ frame[t].ret.val.realized_pnl = 0 - 10

\* No thread other than t is inside a method body of the ledger.
AloneInside(t) ==
    /\ lock = t
    /\ \A u \in Threads \ {t} : frame[u].pc \notin {"locked", "popped"}

\* C19: close_position on an open market removes the position and appends
\* exactly one closed record for it, and returns that record; from the
\* removal to the append the closing thread holds the lock and no other
\* thread is inside a method of the ledger, so none observes the position in
\* both collections or in neither.  On a market with no open position it
\* returns None and leaves both collections as they were.
C19_AtomicClose ==
    /\ [](\A t \in Threads : frame[t].pc = "popped" => AloneInside(t))
    /\ [][\A t \in Threads :
            LET m == frame[t].args.market_id
            IN  /\ (BodyStep(t, "close_position") /\ m \in DOMAIN positions)
                       => /\ frame'[t].pc = "popped"
                          /\ positions' = [k \in DOMAIN positions \ {m} |-> positions[k]]
                          /\ closed_positions' = closed_positions
                          /\ AloneInside(t)
                /\ AppendStep(t)
                       => /\ Len(closed_positions') = Len(closed_positions) + 1
                          /\ SubSeq(closed_positions', 1, Len(closed_positions))
                                 = closed_positions
                          /\ closed_positions'[Len(closed_positions')].market_id = m
                          /\ ~frame'[t].ret.none
                          /\ frame'[t].ret.val
                                 = closed_positions'[Len(closed_positions')]
                          /\ positions' = positions
                          /\ m \notin DOMAIN positions
                /\ (BodyStep(t, "close_position") /\ m \notin DOMAIN positions)
                       => /\ frame'[t].pc = "done"
                          /\ frame'[t].ret.none
                          /\ LedgerUnchanged]_vars

C19_Witness ==
    \E t \in Threads :
        /\ frame[t].pc = "done"
        /\ frame[t].op = "close_position"
        /\ ~frame[t].ret.none
        /\ lock = t
        /\ frame[t].args.market_id \notin DOMAIN positions
        /\ closed_positions # <<>>
        /\ closed_positions[Len(closed_positions)] = frame[t].ret.val

\* C20: while a market's position stays open, no step other than an
\* open_position or a close_position of that market changes its side,
\* shares or entry price (the current price may change); open_position
\* stores the side, shares and entry price it is given, and the closed
\* record carries those of the position removed.
C20_EntryImmutable ==
    [][/\ \A m \in DOMAIN positions :
            (\A t \in Threads :
                ~((BodyStep(t, "open_position")
                      \/ BodyStep(t, "close_position"))
                    /\ frame[t].args.market_id = m))
                => /\ m \in DOMAIN positions'
                   /\ positions'[m].side = positions[m].side
                   /\ positions'[m].shares = positions[m].shares
                   /\ positions'[m].entry_price = positions[m].entry_price
       /\ \A t \in Threads :
            /\ BodyStep(t, "open_position")
                   => LET a == frame[t].args
                          pos == positions'[a.market_id]
                      IN  /\ pos.side = a.side
                          /\ pos.shares = a.shares
                          /\ pos.entry_price = a.entry_price
            /\ (BodyStep(t, "close_position") /\ frame'[t].pc = "popped")
                   => frame'[t].pos.val = positions[frame[t].args.market_id]
            /\ AppendStep(t)
                   => LET pos == frame[t].pos.val
                          closed == closed_positions'[Len(closed_positions')]
                      IN  /\ closed.side = pos.side
                          /\ closed.shares = pos.shares
                          /\ closed.entry_price = pos.entry_price]_vars

C20_Witness ==
    \E t \in Threads :
        /\ frame[t].pc = "done"
        /\ frame[t].op = "close_position"
        /\ ~frame[t].ret.none
        /\ frame[t].pos.val.current_price # frame[t].pos.val.entry_price
        /\ frame[t].ret.val.entry_price = frame[t].pos.val.entry_price
        /\ frame[t].ret.val.side = frame[t].pos.val.side
        /\ frame[t].ret.val.shares = frame[t].pos.val.shares

\* C21: the ledger holds at most one open position per market: the open
\* positions, as get_all_positions lists them, are as many as the markets
\* that have one and each carries its own market id.  open_position on a
\* market that has a position replaces it by the new one (side, shares and
\* entry price as given, current price at the entry price), keeps the set
\* of open markets and every other position, and appends no closed record.
C21_OnePositionPerMarket ==
    /\ [](/\ \A m \in DOMAIN positions : positions[m].market_name = m
          /\ Cardinality({positions[m] : m \in DOMAIN positions})
                 = Cardinality(DOMAIN positions))
    /\ [][\A t \in Threads :
            (BodyStep(t, "open_position")
               /\ frame[t].args.market_id \in DOMAIN positions)
                => LET a == frame[t].args
                   IN  /\ DOMAIN positions' = DOMAIN positions
                       /\ positions'[a.market_id] =
                              [side |-> a.side, shares |-> a.shares,
                               entry_price |-> a.entry_price,
                               current_price |-> a.entry_price,
                               market_name |-> a.market_id]
                       /\ \A m \in DOMAIN positions \ {a.market_id} :
                              positions'[m] = positions[m]
                       /\ closed_positions' = closed_positions]_vars

C21_Witness ==
    \E t \in Threads :
        /\ frame[t].pc = "done"
        /\ frame[t].op = "open_position"
        /\ ~frame[t].pos.none
        /\ frame[t].pos.val.side # frame[t].args.side
        /\ positions[frame[t].args.market_id].side = frame[t].args.side
        /\ closed_positions = <<>>

\* Thread t is inside a critical section of the ledger.
Inside(t) == frame[t].pc \in {"locked", "popped"} \/ (frame[t].pc = "done" /\ frame[t].held)

\* C29: every step of the six PositionMonitor operations that reads or
\* writes the open positions or the closed history is taken by the thread
\* that holds the lock; no two threads are inside their critical sections
\* at once; and the lock is released when a call returns, also on the early
\* not-found returns, so that a thread outside a call never holds it.
C29_LockDiscipline ==
    /\ [](/\ \A t, u \in Threads : (Inside(t) /\ Inside(u)) => t = u
          /\ \A t \in Threads : Inside(t) <=> lock = t)
    /\ [][\A t \in Threads :
            /\ (frame[t].pc \in {"locked", "popped"} /\ frame'[t] # frame[t])
                   => (lock = t /\ lock' = t)
            /\ (positions' # positions \/ closed_positions' # closed_positions)
                   => (\E u \in Threads : lock = u /\ frame'[u] # frame[u])
            /\ (frame[t].pc = "done" /\ frame[t].held /\ frame'[t].pc = "idle")
                   => lock' = "free"]_vars

C29_Witness ==
    \E t \in Threads :
        /\ frame[t].pc = "done"
        /\ frame[t].op = "close_position"
        /\ frame[t].ret.none
        /\ lock = t
        /\ \A u \in Threads \ {t} : frame[u].pc = "idle"

\* C22: the closed history is append-only: no step of the ledger shortens
\* it or changes a record already in it or its place; it grows by exactly
\* one record in the step that completes a close_position of an open market
\* and by none in every other step.
C22_AppendOnlyHistory ==
    [][/\ Len(closed_positions') >= Len(closed_positions)
       /\ SubSeq(closed_positions', 1, Len(closed_positions)) = closed_positions
       /\ (Len(closed_positions') = Len(closed_positions) + 1)
              <=> (\E t \in Threads : AppendStep(t))
       /\ (Len(closed_positions') = Len(closed_positions))
              <=> ~(\E t \in Threads : AppendStep(t))]_vars

C22_Witness ==
    \E t \in Threads :
        /\ frame[t].pc = "done"
        /\ frame[t].op = "close_position"
        /\ ~frame[t].ret.none
        /\ Len(closed_positions) >= 3
        /\ closed_positions[1] # closed_positions[Len(closed_positions)]
        /\ closed_positions[2] # closed_positions[1]

Min(a, b) == IF a <= b THEN a ELSE b

\* C23: get_summary returns the length of the whole closed history as
\* closed_positions, the sum of realized P&L over the whole history (not
\* over the window) as total_realized_pnl, the number of open positions,
\* and as closed_position_list the min(10, n) most recent closed records in
\* their order; it leaves the ledger unchanged.
C23_Summary ==
    [][\A t \in Threads :
        BodyStep(t, "get_summary")
            => LET ret == frame'[t].ret.val
                   n == Len(closed_positions)
                   w == Min(SUMMARY_WINDOW, n)
               IN  /\ ret.closed_positions = n
                   /\ ret.open_positions = Cardinality(DOMAIN positions)
                   /\ ret.total_realized_pnl = SumRealized(closed_positions)
                   /\ Len(ret.closed_position_list) = w
                   /\ \A i \in 1 .. w :
                          ret.closed_position_list[i] = closed_positions[n - w + i]
                   /\ LedgerUnchanged]_vars

C23_Witness ==
    \E t \in Threads :
        /\ frame[t].pc = "done"
        /\ frame[t].op = "get_summary"
        /\ Len(closed_positions) > SUMMARY_WINDOW
        /\ Len(frame[t].ret.val.closed_position_list) = SUMMARY_WINDOW
        /\ frame[t].ret.val.closed_positions = Len(closed_positions)
        /\ frame[t].ret.val.total_realized_pnl
               # SumRealized(frame[t].ret.val.closed_position_list)
        /\ closed_positions[1] # closed_positions[SUMMARY_WINDOW + 1]

(***************************************************************************)
(* Properties of TradeMetrics                                              *)
(***************************************************************************)

\* The step is a call of op that was recorded in the history of P&L events.
PnlEventStep(kind) ==
    /\ Len(pnl_events') = Len(pnl_events) + 1
    /\ pnl_events'[Len(pnl_events')].kind = kind

\* The P&L recorded by the step.
StepPnl == pnl_events'[Len(pnl_events')].pnl

\* Number of losses at the end of the events, back to the last event that
\* is not a loss (a non-negative P&L or a reset).
RECURSIVE TrailingLosses(_)
TrailingLosses(events) ==
    IF events = <<>> THEN 0
    ELSE LET e == events[Len(events)]
         IN  IF e.kind = "pnl" /\ e.pnl < 0
             THEN 1 + TrailingLosses(SubSeq(events, 1, Len(events) - 1))
             ELSE 0

\* The streak after each of the events.
StreaksOf(events) ==
    [i \in 1 .. Len(events) |-> TrailingLosses(SubSeq(events, 1, i))]

PnlEvents(pnls) == [i \in 1 .. Len(pnls) |-> [kind |-> "pnl", pnl |-> pnls[i]]]

\* C24: record_pnl(market, p) sets the loss streak to the previous streak
\* plus one when p < 0 and to 0 when p >= 0 (also for p = 0), so the streak
\* is always the number of consecutive losses since the last non-negative
\* P&L or reset; the P&L sequence -5, -5, -5, +1, -5 gives the streaks
\* 1, 2, 3, 0, 1.
C24_LossStreak ==
    /\ [](/\ loss_streak = TrailingLosses(pnl_events)
          /\ pnl_events = PnlEvents(<<0 - 5, 0 - 5, 0 - 5, 1, 0 - 5>>)
                 => (StreaksOf(pnl_events) = <<1, 2, 3, 0, 1>> /\ loss_streak = 1))
    /\ [][PnlEventStep("pnl")
            => loss_streak' = IF StepPnl < 0 THEN loss_streak + 1 ELSE 0]_vars

C24_Witness ==
    /\ pnl_events = PnlEvents(<<0 - 5, 0 - 5, 0 - 5, 1, 0 - 5>>)
    /\ loss_streak = 1
    /\ metrics_last.op = "record_pnl"

\* C25: the daily-loss accumulator is never negative; record_pnl with p < 0
\* adds |p| to it (a float addition, which never lowers it), record_pnl
\* with p >= 0, record_trade, get_statistics and print_summary leave it
\* unchanged, and it goes down, to 0, only in reset_daily_stats, which also
\* zeroes the loss streak and leaves the trade log unchanged.
C25_DailyLoss ==
    /\ [](daily_loss_usd >= 0)
    /\ [][/\ PnlEventStep("pnl")
               => /\ daily_loss_usd' =
                         IF StepPnl < 0
                         THEN Fl(daily_loss_usd + (0 - StepPnl))
                         ELSE daily_loss_usd
                  /\ daily_loss_usd' >= daily_loss_usd
          /\ pnl_events' = pnl_events
               => /\ daily_loss_usd' = daily_loss_usd
                  /\ loss_streak' = loss_streak
          /\ daily_loss_usd' < daily_loss_usd => PnlEventStep("reset")
          /\ PnlEventStep("reset")
               => /\ daily_loss_usd' = 0
                  /\ loss_streak' = 0
                  /\ trades' = trades]_vars

C25_Witness ==
    /\ Len(pnl_events) >= 3
    /\ pnl_events[Len(pnl_events)].kind = "reset"
    /\ pnl_events[Len(pnl_events) - 1].kind = "pnl"
    /\ pnl_events[Len(pnl_events) - 1].pnl < 0
    /\ pnl_events[Len(pnl_events) - 2].pnl > 0
    /\ daily_loss_usd = 0
    /\ loss_streak = 0
    /\ trades # <<>>
    /\ metrics_last.op = "reset_daily_stats"

Reported(call, message) ==
    \E i \in 1 .. Len(call.reported) : call.reported[i] = message

\* C26: record_pnl logs the daily-loss alert exactly when p < 0 and the
\* accumulator after the addition is above loss_limit_usd, and the streak
\* alert exactly when p < 0 and the streak after the increment is at least
\* loss_streak_alert; each is decided on its own, neither is logged for a
\* non-negative P&L, and no exception is raised.
C26_Alerts ==
    [][PnlEventStep("pnl")
        => /\ metrics_last'.op = "record_pnl"
           /\ metrics_last'.exc = "None"
           /\ Reported(metrics_last', "daily_loss_limit_breach")
                  <=> (StepPnl < 0 /\ daily_loss_usd' > loss_limit_usd)
           /\ Reported(metrics_last', "loss_streak_alert")
                  <=> (StepPnl < 0 /\ loss_streak' >= loss_streak_alert)
           /\ Len(metrics_last'.reported) <= 2]_vars

C26_Witness ==
    /\ metrics_last.op = "record_pnl"
    /\ metrics_last.reported = <<"loss_streak_alert">>
    /\ daily_loss_usd > 0
    /\ daily_loss_usd <= loss_limit_usd
    /\ loss_streak >= loss_streak_alert

\* C28: get_statistics returns the number of recorded trades, split into
\* simulated and live ones (total = simulated + live, each the number of
\* trades recorded with that flag), the current daily loss and the current
\* loss streak, in every state, also before any trade was recorded.
C28_StatisticsComplete ==
    metrics_last.op = "get_statistics"
        => LET st == metrics_last.ret.val
           IN  /\ DOMAIN st = {"total_trades", "dry_run_trades", "live_trades",
                               "daily_loss_usd", "current_loss_streak"}
               /\ st.total_trades = Len(trades)
               /\ st.total_trades = st.dry_run_trades + st.live_trades
               /\ st.dry_run_trades = CountDryRun(TRUE)
               /\ st.live_trades = CountDryRun(FALSE)
               /\ st.daily_loss_usd = daily_loss_usd
               /\ st.current_loss_streak = loss_streak

ReaderStep ==
    /\ last'.op \in {"get_status", "can_trade"}
    /\ last' # last
    /\ UNCHANGED limits_pc

\* C30: a thread that calls get_status or can_trade while the polling loop
\* runs add_position or close_position never finds total_exposure_usd
\* different from the sum of the per-market amounts.
C30_ReaderSeesConsistentLimits ==
    [][ReaderStep
        => total_exposure_usd
               = ExactSum(active_positions, DOMAIN active_positions)]_vars

(***************************************************************************)
(* Properties of the per-market notional                                   *)
(***************************************************************************)

\* C37: under the single-writer discipline (every add_position(m, a) follows
\* a can_trade(m, a) that returned True, a > 0) the notional recorded for a
\* market never exceeds MAX_POSITION_USD, also when an open market is traded
\* again.
C37_PerMarketCeiling ==
    \A m \in DOMAIN active_positions : active_positions[m] <= MAX_POSITION_USD

(***************************************************************************)
(* Properties of the submission order within one live call                 *)
(***************************************************************************)

\* The attempts of a call in which post_order was reached.
Submitted(out) == {i \in 1 .. Len(out) : out[i] \notin {"create_raises", "no_client"}}

\* C38: within one live execute_market_buy call every attempt first creates
\* a new order and then submits it (each post_order directly follows a
\* create_market_buy, and there is one create_market_buy per attempt), at
\* most one submission returns, and after a submission that returned no
\* further order is created or submitted.
C38_CreateThenSubmit ==
    [][(~DRY_RUN /\ exec_last'.op = "execute_market_buy") =>
        LET c == exec_last'
            calls == c.calls
            out == c.outcomes
        IN  /\ \A i \in 1 .. Len(calls) :
                   calls[i] = "post_order"
                       => i > 1 /\ calls[i - 1] = "create_market_buy"
            /\ c.client # "None" => Count(calls, "create_market_buy") = Len(out)
            /\ Count(calls, "post_order") = Cardinality(Submitted(out))
            /\ Count(out, "returns") <= 1
            /\ \A i \in 1 .. Len(out) :
                   out[i] = "returns"
                       => i = Len(out) /\ calls[Len(calls)] = "post_order"]_vars

C38_Witness ==
    /\ LiveCall
    /\ exec_last.outcomes = <<"post_raises", "returns">>
    /\ exec_last.calls = <<"get_balance", "create_market_buy", "post_order",
                           "create_market_buy", "post_order">>
    /\ exec_last.ret = "True"

(***************************************************************************)
(* Properties of the executor and the ledger's lock                        *)
(***************************************************************************)

\* C33 (amended): while execute_market_buy is inside get_balance, create_market_buy,
\* post_order or a backoff delay, the thread running it holds no lock (it is
\* inside no method of the ledger; PositionLimits and TradeMetrics have no
\* lock to hold), so the ledger's lock is free for a reader that is about to
\* enter, and otherwise held only by a reader that is inside.
C33_NoLockHeldInFlight ==
    InFlight =>
        /\ lock # exec_pc.thread
        /\ frame[exec_pc.thread].pc = "idle"
        /\ \A t \in Threads \ {exec_pc.thread} :
               /\ frame[t].pc = "idle" => lock = "free"
               /\ lock # "free" => lock = t /\ frame[t].held

\* C33 as stated: in every state in which execute_market_buy is inside a
\* client call or a backoff delay, every component lock is free.
C33_AllLocksFree == InFlight => lock = "free"

\* A reader is inside the ledger while the order waits in a backoff delay.
C33_Witness ==
    /\ InFlight
    /\ exec_pc.places[exec_pc.at] = "backoff"
    /\ positions # <<>>
    /\ frame["display"].pc = "done"
    /\ frame["display"].op = "get_all_positions"

(***************************************************************************)
(* Properties of can_trade / add_position under several callers            *)
(***************************************************************************)

\* A ceiling of PositionLimits is exceeded.
CountBreach == OpenCount > MAX_CONCURRENT_POSITIONS
ExposureBreach == ExceedsMaxExposure(total_exposure_usd)
DailyBreach == daily_trade_count > MAX_DAILY_TRADES
Breach == CountBreach \/ ExposureBreach \/ DailyBreach

\* C32: can_trade followed by add_position is not atomic.  When two callers
\* interleave, the ceilings are exceeded although every add_position was
\* approved (the witness), and every add_position that takes the limits
\* from within their ceilings to beyond them is one that can_trade would
\* refuse in the state it is made in: its approval dates from before
\* another caller's add_position.
C32_BreachOnlyByStaleApproval ==
    [][(last'.op = "add_position" /\ ~Breach /\ Breach')
          => CanTradeCheck(last'.market, last'.amount) # "ok"]_vars

\* Both callers were approved and have recorded their trades, and all three
\* ceilings are exceeded.
C32_Witness ==
    /\ \A c \in Callers : approvals[c].state = "added"
    /\ last.op = "add_position"
    /\ CountBreach
    /\ ExposureBreach
    /\ DailyBreach

(***************************************************************************)
(* Properties of TradeMetrics under concurrent calls                       *)
(***************************************************************************)

\* The losses among the record_pnl calls made so far.
Losses == {i \in 1 .. Len(pnl_events) : pnl_events[i].pnl < 0}
OnlyLosses == \A i \in 1 .. Len(pnl_events) : pnl_events[i].pnl < 0

\* No thread is inside record_pnl.
MetricsQuiet == \A t \in Threads : metrics_pc[t].pc = "idle"

\* C31: the operations of TradeMetrics are atomic with respect to one
\* another.  Concurrent record_pnl calls lose no update: once the calls have
\* returned, the accumulator holds every loss recorded (each is one quantum
\* here) and, when nothing but losses was recorded, the streak counts them
\* all; and get_statistics never reports a loss in the accumulator whose
\* streak increment is missing.
C31_MetricsAtomic ==
    /\ [](MetricsQuiet =>
            /\ daily_loss_usd = Cardinality(Losses)
            /\ OnlyLosses => loss_streak = Cardinality(Losses))
    /\ [][(/\ metrics_last'.op = "get_statistics"
            /\ metrics_last' # metrics_last
            /\ trades # <<>>
            /\ OnlyLosses)
              => metrics_last'.ret.val.daily_loss_usd
                     = metrics_last'.ret.val.current_loss_streak]_vars

(***************************************************************************)
(* Properties of the attached balance helper                               *)
(***************************************************************************)

Available(answer) == answer.kind = "value" /\ answer.val >= 0

\* The first non-negative balance in the order wallet, provider, or 0.0.
\* (The direct method of the client is the helper itself after line 100.)
FirstBalance ==
    IF Available(balance_stack.wallet) THEN balance_stack.wallet.val
    ELSE IF Available(balance_stack.provider) THEN balance_stack.provider.val
    ELSE 0

IsPrefix(a, b) == Len(a) <= Len(b) /\ a = SubSeq(b, 1, Len(a))

\* C39: the attached get_balance never calls itself, probes the direct
\* method, the wallet and the provider once each in that order, and returns
\* the first non-negative balance found, or 0.0 when none is available.
C39_BalanceHelper ==
    /\ Len(balance_stack.frames) <= 1
    /\ IsPrefix(balance_stack.probes, <<"direct", "wallet", "provider">>)
    /\ ~balance_stack.result.none => balance_stack.result.val = FirstBalance

(***************************************************************************)
(* Properties of CrowdFollowerStrategy.                                    *)
(***************************************************************************)
PriceOf(tp, side) == IF side = "yes" THEN tp.yes_price ELSE tp.no_price
TokenOf(tp, side) == IF side = "yes" THEN tp.yes_token ELSE tp.no_token

\* The three cases in which scan_for_edge is to report no edge.
NoEdgeCase(tp, vol) ==
    LET sum == tp.yes_price + tp.no_price
        lo == IF vol >= HIGH_VOLUME_THRESHOLD THEN VIG_TOLERANCE_TIGHT[1]
              ELSE VIG_TOLERANCE_LOOSE[1]
        hi == IF vol >= HIGH_VOLUME_THRESHOLD THEN VIG_TOLERANCE_TIGHT[2]
              ELSE VIG_TOLERANCE_LOOSE[2]
    IN  \/ vol < MIN_VOLUME
        \/ sum < lo \/ sum > hi
        \/ \A side \in Sides :
              PriceOf(tp, side) < MIN_THRESHOLD \/ PriceOf(tp, side) > MAX_THRESHOLD

ScanResultRight ==
    bot.scan.op = "scan_for_edge" =>
        LET tp == bot.scan.tp
            d == bot.scan.edge_details
        IN  IF NoEdgeCase(tp, bot.scan.vol)
            THEN d = None /\ bot.scan.edge_msg = None
            ELSE /\ ~d.none
                 /\ d.val.side \in Sides
                 /\ MIN_THRESHOLD <= PriceOf(tp, d.val.side)
                 /\ PriceOf(tp, d.val.side) <= MAX_THRESHOLD
                 /\ \A other \in Sides :
                       (MIN_THRESHOLD <= PriceOf(tp, other)
                           /\ PriceOf(tp, other) <= MAX_THRESHOLD)
                         => PriceOf(tp, other) <= PriceOf(tp, d.val.side)
                 /\ tp.yes_price = tp.no_price => d.val.side = bot.scan.preferred
                 /\ d.val.price = PriceOf(tp, d.val.side)
                 /\ d.val.token_id = TokenOf(tp, d.val.side)

C40_ExecuteEdgeReturn ==
    bot.edge.op = "execute_edge" =>
        /\ ~bot.edge.bought => ~bot.edge.ret
        /\ bot.edge.ret => (bot.edge.bought /\ exec_last.ret = "True")

(***************************************************************************)
(* Properties of the polling loop.                                         *)
(***************************************************************************)
\* The trade tracker is cleared in this step.
LockLifted ==
    ~bot.loop.last_traded_market_id.none /\ bot'.loop.last_traded_market_id.none

\* C36: within one slot the loop calls execute_edge at most once for a
\* market, ticks on which the fetch returns nothing included, and the lock
\* on a market is lifted only when the fetched market belongs to another
\* slot than the locked one.
C36_OneTradePerSlot ==
    /\ [](\A m \in Slots : bot.loop.executed[m] <= 1)
    /\ [][LockLifted =>
            bot.loop.market.val.slot # SlotOf(bot.loop.last_traded_market_id.val)]_vars

\* The failures a tick of the loop can meet: the fetch raises or finds no
\* market, the refreshed market has no open position, the balance check
\* refuses the order, the submission exhausts its retries, the chosen side
\* has no token id.
LoopFailures ==
    {"fetch_failed", "no_market", "lookup_miss", "wallet_balance_check_failed",
     "trade_failed", "missing_token"}

NextTick == bot.loop.pc = "fetch" /\ bot.loop.failures = {}

\* C34: no failure terminates the polling loop: after a tick in which a
\* failure occurs the loop always reaches its next tick.
C34_LoopReachesNextTick ==
    \A k \in LoopFailures : (k \in bot.loop.failures) ~> NextTick

\* The loop is at the start of a tick after one in which the submission
\* exhausted its retries.
C34_Witness ==
    /\ NextTick
    /\ exec_last.op = "execute_market_buy"
    /\ exec_last.ret = "False"
    /\ exec_last.attempts = MAX_ATTEMPTS
    /\ ExecFailures(exec_last) = {"trade_failed"}
    /\ ~bot.loop.last_traded_market_id.none

====
